---- MODULE Spec2Model ----
(***************************************************************************)
(* Delivery reliability pipeline of granola-automation-client:             *)
(*   - WebhookClient.sendToWebhook      (retry / backoff loop)             *)
(*   - StateManager                     (ledgers, failure streak)          *)
(*   - WebhookClient / MeetingMonitor   (batch runs)                       *)
(* The specifications share one set of variables; each leaves the          *)
(* variables of the other components untouched.                            *)
(*   SpecSend   : one call of sendToWebhook                                *)
(*   SpecSkip   : calls of StateManager.shouldNotifyForSkipped             *)
(*   SpecStreak : calls of StateManager.recordFailure / recordSuccess      *)
(*   Spec       : MeetingMonitor batch runs over the StateManager          *)
(*   SpecHealth : the same runs, more of them, over shorter pages          *)
(***************************************************************************)
EXTENDS Integers, Sequences, FiniteSets, TLC

(***************************************************************************)
(* Bounds of the model                                                     *)
(***************************************************************************)
\* largest configured maxRetries explored (the schema allows 0..10)
MaxRetriesCfg == 3

\* configured base delays explored (the tests use 10, the schema default is 1000)
RetryDelays == {10, 1000}

\* HTTP status codes the sink answers with
Statuses == {200, 204, 400, 429, 500}

\* meeting ids and titles the upstream service knows
Ids == {"m1", "m2"}
Titles == {"Standup", "Review"}

\* steps of the wall clock (hours) and the last hour explored
TickHours == {12, 24}
MaxClock == 48

\* calls of shouldNotifyForSkipped explored in one behaviour
MaxSkipCalls == 11

\* longest failure streak explored
MaxStreak == 7

\* monitor runs explored in one behaviour, documents per fetched page, and
\* the last hour at which a run starts
MaxRuns == 2
MaxPage == 2
MaxRunClock == 24

\* runs and documents per page explored when failure streaks are followed
MaxHealthRuns == 4
MaxHealthPage == 1

(***************************************************************************)
(* Program constants                                                       *)
(***************************************************************************)
DefaultMaxRetries == 3
DefaultRetryDelay == 1000
LookbackDays == 3
HoursPerDay == 24
SkipNotifyEvery == 5
SkipNotifyHours == 24
FailureNotifyEvery == 3
\* lastNotificationTime: null
NullTime == -1

VARIABLES
  \* ---- WebhookClient.sendToWebhook ----
  webhookConfig,   \* this.webhookConfig: maxRetries, retryStrategy, retryDelay, secret
  sendPc,          \* position in sendToWebhook: idle, attempt, backoff, done
  retries,         \* local `retries`
  lastError,       \* local `lastError`
  delay,           \* local `delay` of the pending backoff
  sendResult,      \* the returned WebhookResult (kind "none" until the call returns)
  attempts,        \* history: passes through the loop body
  httpCalls,       \* history: calls of fetch
  failed,          \* history: failed attempts
  slept,           \* history: the delays awaited, in order
  \* ---- StateManager ----
  state,           \* this.state: lastCheckTimestamp, processedMeetings,
                   \*   skippedMeetings, failureTracking
  clock,           \* the wall clock read by new Date(), in hours
  ret,             \* the value returned by the last StateManager call
  skipCalls,       \* history: calls of shouldNotifyForSkipped per meeting id
  lastTrueAt,      \* history: time of the last call that returned true, per id
  streakCalls,     \* history: recordFailure calls since the streak was zero
  successCalls,    \* history: calls of recordSuccess
  \* ---- WebhookClient.processUnprocessedMeetings / MeetingMonitor ----
  monPc,           \* position of the monitor run: idle, loop, handle, finished
  runs,            \* history: monitor runs started
  page,            \* documents.docs as the upstream fetch returned them
  processedIds,    \* the Set handed to the client, in insertion order
  unprocessedDocs, \* the filtered documents the client loops over
  loopIdx,         \* position of the client's for loop in unprocessedDocs
  results,         \* results collected by the client
  handleIdx,       \* the monitor's index i into results
  notified,        \* notifications sent during this run, in order
  file,            \* content of the state file
  posted,          \* history: ids POSTed to the sink during this run, in order
  startSuccess,    \* history: ids recorded with success=true when the run started
  \* ---- StateManager.save / loadOrInitialize and the disk ----
  tmpFile,         \* content of the file at `${filePath}.tmp`
  savePc,          \* idle, written (temp file written, not yet renamed),
                   \*   down (the process is gone, none constructed yet)
  fileBefore,      \* history: content of the state file when the save() in
                   \*   progress or cut short began
  lastSaved,       \* history: this.state at the last save() that returned
  lastLoad,        \* history: the last construction after the first: what
                   \*   ended the process before it, whether it threw
  persistOps,      \* history: StateManager calls made
  \* ---- OutputDestinationManager.sendToOutputs ----
  outConfig,       \* this.config: per sink, whether enabled and configured
  outPc,           \* idle, then the sink whose block runs next, then returned
  outResults,      \* local `results`
  outInvoked,      \* history: the sinks whose send function was called, in order
  outThrew,        \* history: the sinks whose send function threw
  \* ---- NotificationManager ----
  nmChannels,      \* this.channels, by channel name
  nmConstructed,   \* history: this.channels as the constructor left it
  nmPc,            \* idle, or sending (Promise.allSettled is awaited)
  nmTemp,          \* local `temporaryChannels` of the last call
  nmSettled,       \* per dispatched channel: pending, or how its promise settled
  nmResults,       \* the array the last call returned
  nmFlags,         \* history: includeDesktop of every call so far, in order
  \* ---- WebhookClient.processMeeting / MeetingMonitor.processMeeting ----
  pmCaller,        \* who calls the client: the MeetingMonitor, or code that
                   \*   uses the WebhookClient directly
  pmWebhookSet,    \* whether this.webhookConfig is set
  tplConfig,       \* this.templateValidationConfig
  pmPanels,        \* template_slug of each panel of the meeting
  pmPc,            \* idle, validate, build, returned, threw, done
  pmResult,        \* the WebhookResult the client returned
  pmValidation,    \* history: none, or what validateTemplates decided
  pmFailedAt,      \* history: none, or the step of this call that failed
  pmPosts,         \* history: calls of sendToWebhook in this call
  pmCalls,         \* history: single-meeting calls started
  pmLedgerBefore,  \* history: the processed ledger when the call started
  \* ---- OrganizationDetector.detectOrganization ----
  detConfig,       \* this.config of the detector
  detMeeting,      \* the argument of the last call
  detPc,           \* idle, or returned
  detResult,       \* what the last call returned
  \* ---- OutputDestinationManager.sendToJsonFile ----
  jfAppend,        \* config.appendMode
  jfFile,          \* the file at config.filePath
  jfStart,         \* history: the file before the first send
  jfSent,          \* history: the payloads of the sends that returned, in order
  \* ---- WebhookClient.buildMeetingPayload ----
  plTranscript,    \* enhancedTranscript: present or not, and its segments
  plPc,            \* idle, or built
  plDuration,      \* the `duration` of the payload built
  \* ---- scripts/scheduled-webhook-monitor.js ----
  schInterval,     \* intervalMs, in time units
  schUntilFire,    \* time units until the interval timer fires next
  schChildren,     \* remaining run time of every monitor child that is running
  schSpawned       \* history: children spawned so far

sendVars == <<webhookConfig, sendPc, retries, lastError, delay, sendResult,
              attempts, httpCalls, failed, slept>>

smVars == <<state, clock, ret, skipCalls, lastTrueAt, streakCalls, successCalls>>

smHistory == <<ret, skipCalls, lastTrueAt, streakCalls, successCalls>>

monVars == <<monPc, runs, page, processedIds, unprocessedDocs, loopIdx, results,
             handleIdx, notified, file, posted, startSuccess>>

diskVars == <<tmpFile, savePc, fileBefore, lastSaved, lastLoad, persistOps>>

outVars == <<outConfig, outPc, outResults, outInvoked, outThrew>>

notifVars == <<nmChannels, nmConstructed, nmPc, nmTemp, nmSettled, nmResults,
               nmFlags>>

pmVars == <<pmCaller, pmWebhookSet, tplConfig, pmPanels, pmPc, pmResult,
            pmValidation, pmFailedAt, pmPosts, pmCalls, pmLedgerBefore>>

detVars == <<detConfig, detMeeting, detPc, detResult>>

jfVars == <<jfAppend, jfFile, jfStart, jfSent>>

plVars == <<plTranscript, plPc, plDuration>>

schVars == <<schInterval, schUntilFire, schChildren, schSpawned>>

utilVars == <<jfVars, plVars, schVars>>

compVars == <<diskVars, outVars, notifVars, pmVars, detVars, utilVars>>

vars == <<webhookConfig, sendPc, retries, lastError, delay, sendResult,
          attempts, httpCalls, failed, slept,
          state, clock, ret, skipCalls, lastTrueAt, streakCalls, successCalls,
          monPc, runs, page, processedIds, unprocessedDocs, loopIdx, results,
          handleIdx, notified, file, posted, startSuccess,
          tmpFile, savePc, fileBefore, lastSaved, lastLoad, persistOps,
          outConfig, outPc, outResults, outInvoked, outThrew,
          nmChannels, nmConstructed, nmPc, nmTemp, nmSettled, nmResults, nmFlags,
          pmCaller, pmWebhookSet, tplConfig, pmPanels, pmPc, pmResult,
          pmValidation, pmFailedAt, pmPosts, pmCalls, pmLedgerBefore,
          detConfig, detMeeting, detPc, detResult,
          jfAppend, jfFile, jfStart, jfSent,
          plTranscript, plPc, plDuration,
          schInterval, schUntilFire, schChildren, schSpawned>>

\* sendToWebhook: no error seen yet, no result returned yet
NoError == [kind |-> "none", status |-> 0]

NoResult == [kind |-> "none", retries |-> 0, statusCode |-> 0]

(***************************************************************************)
(* StateManager                                                            *)
(***************************************************************************)
\* Array.prototype.find / some on a ledger: index of the first record with
\* this id, 0 when there is none
RECURSIVE FindFrom(_, _, _)
FindFrom(ledger, id, i) ==
  IF i > Len(ledger) THEN 0
  ELSE IF ledger[i].id = id THEN i
  ELSE FindFrom(ledger, id, i + 1)

FindById(ledger, id) == FindFrom(ledger, id, 1)

\* mutant: strictly more than 24 hours
SkipShouldNotify_Strict(count, hours) ==
  count % SkipNotifyEvery = 0 \/ hours > SkipNotifyHours

\* skip_count % 5 === 0 || hoursSinceLastNotification >= 24
SkipShouldNotify(count, hours) ==
  count % SkipNotifyEvery = 0 \/ hours >= SkipNotifyHours

\* mutant: the timestamp is set by every call
NotifiedAt_EveryCall(shouldNotify, now, previous) == now

\* if (shouldNotify) existingSkipped.last_notified_at = now.toISOString()
NotifiedAt(shouldNotify, now, previous) ==
  IF shouldNotify THEN now ELSE previous

\* shouldNotifyForSkipped(meetingId, meetingTitle, skipReason) at time now:
\* the new state and the returned flag
ShouldNotifyForSkipped(st, id, title, reason, now) ==
  LET i == FindById(st.skippedMeetings, id) IN
  IF i > 0
    THEN LET e == st.skippedMeetings[i]
             count == e.skip_count + 1
             hours == now - e.last_notified_at
             shouldNotify == SkipShouldNotify(count, hours)
         IN [state |-> [st EXCEPT !.skippedMeetings[i] =
                          [e EXCEPT !.skip_count = count,
                                    !.title = title,
                                    !.last_notified_at =
                                       NotifiedAt(shouldNotify, now, @)]],
             value |-> shouldNotify]
    ELSE [state |-> [st EXCEPT !.skippedMeetings =
                       Append(@, [id |-> id, title |-> title,
                                  skipReason |-> reason,
                                  last_notified_at |-> now,
                                  skip_count |-> 1])],
          value |-> TRUE]

\* mutant: the first failure of a streak is not announced
FailureShouldNotify_NotFirst(count) == count % FailureNotifyEvery = 0

\* consecutiveFailures === 1 || consecutiveFailures % 3 === 0
FailureShouldNotify(count) == count = 1 \/ count % FailureNotifyEvery = 0

\* recordFailure() at time now: the new state and the returned object
RecordFailure(st, now) ==
  LET previousFailures == st.failureTracking.consecutiveFailures
      count == previousFailures + 1
      shouldNotify == FailureShouldNotify(count)
  IN [state |-> [st EXCEPT !.failureTracking =
                   [@ EXCEPT !.consecutiveFailures = count,
                             !.lastNotificationTime =
                                IF shouldNotify THEN now ELSE @]],
      shouldNotify |-> shouldNotify,
      count |-> count,
      previousFailures |-> previousFailures]

\* mutant: the streak is kept
RecordSuccess_NoReset(st, now) ==
  [st EXCEPT !.failureTracking = [@ EXCEPT !.lastSuccessTime = now]]

\* recordSuccess() at time now
RecordSuccess(st, now) ==
  [st EXCEPT !.failureTracking =
     [@ EXCEPT !.consecutiveFailures = 0, !.lastSuccessTime = now]]

\* loadOrInitialize when there is no state file
FreshState(now) ==
  [lastCheckTimestamp |-> now - LookbackDays * HoursPerDay,
   processedMeetings |-> <<>>,
   skippedMeetings |-> <<>>,
   failureTracking |-> [consecutiveFailures |-> 0,
                        lastNotificationTime |-> NullTime,
                        lastSuccessTime |-> now]]

NoReturn == [op |-> "none"]

\* a StateManager constructed on a path without a file, no call made yet
StateManagerConstructed ==
  /\ clock = 0
  /\ state = FreshState(0)
  /\ ret = NoReturn
  /\ skipCalls = [id \in Ids |-> 0]
  /\ lastTrueAt = [id \in Ids |-> NullTime]
  /\ streakCalls = 0
  /\ successCalls = 0

\* no call of sendToWebhook in progress
SendIdle ==
  /\ webhookConfig = [maxRetries |-> DefaultMaxRetries,
                      retryStrategy |-> "linear",
                      retryDelay |-> DefaultRetryDelay,
                      secret |-> FALSE]
  /\ sendPc = "idle"
  /\ retries = 0
  /\ lastError = NoError
  /\ delay = 0
  /\ sendResult = NoResult
  /\ attempts = 0
  /\ httpCalls = 0
  /\ failed = 0
  /\ slept = <<>>

\* the state file does not exist
NoFile == [exists |-> FALSE]

\* a MeetingMonitor that has not started a run; no state file written yet
MonitorIdle ==
  /\ monPc = "idle"
  /\ runs = 0
  /\ page = <<>>
  /\ processedIds = <<>>
  /\ unprocessedDocs = <<>>
  /\ loopIdx = 1
  /\ results = <<>>
  /\ handleIdx = 1
  /\ notified = <<>>
  /\ file = NoFile
  /\ posted = <<>>
  /\ startSuccess = {}

\* no save() in progress, no temp file left behind
DiskIdle ==
  /\ tmpFile = NoFile
  /\ savePc = "idle"
  /\ fileBefore = NoFile
  /\ lastSaved = [done |-> FALSE]
  /\ lastLoad = [how |-> "none", threw |-> FALSE]
  /\ persistOps = 0

\* the sinks of sendToOutputs in the order of its four blocks
Sinks == <<"webhook", "airtable", "google_sheets", "json_file">>

\* an OutputDestinationManager with every sink's section absent, no call made
OutputsIdle ==
  /\ outConfig = [k \in 1..Len(Sinks) |-> [enabled |-> FALSE, configured |-> FALSE]]
  /\ outPc = 0
  /\ outResults = <<>>
  /\ outInvoked = <<>>
  /\ outThrew = {}

\* a NotificationManager constructed over a config without channels
NotifierIdle ==
  /\ nmChannels = <<>>
  /\ nmConstructed = <<>>
  /\ nmPc = "idle"
  /\ nmTemp = <<>>
  /\ nmSettled = <<>>
  /\ nmResults = <<>>
  /\ nmFlags = <<>>

\* this.templateValidationConfig = null
NoPolicy ==
  [set |-> FALSE, enabled |-> FALSE, mode |-> "disabled",
   requiredTemplateIds |-> <<>>]

\* no WebhookResult yet
NoMeetingResult ==
  [success |-> FALSE, skipped |-> FALSE, skipReason |-> "none", docId |-> "none"]

\* no single-meeting call in progress
MeetingCallIdle ==
  /\ pmPanels = <<>>
  /\ pmPc = "idle"
  /\ pmResult = NoMeetingResult
  /\ pmValidation = "none"
  /\ pmFailedAt = "none"
  /\ pmPosts = 0
  /\ pmCalls = 0
  /\ pmLedgerBefore = <<>>

\* the value of a member that is absent, and of a call that found nothing
Undefined == "undefined"

\* the configuration new OrganizationDetector() falls back to
DEFAULT_CONFIG ==
  [organizations |->
     << [name |-> "Organization1",
         titleKeywords |-> <<"org1", "organization1">>,
         emailDomains |-> <<"org1.com", "organization1.com">>,
         emailAddresses |-> <<"admin@org1.com">>,
         companyNames |-> <<"Organization One, Inc.">>],
        [name |-> "Organization2",
         titleKeywords |-> <<"org2", "organization2">>,
         emailDomains |-> <<"org2.org", "organization2.org">>,
         emailAddresses |-> <<"admin@org2.org">>,
         companyNames |-> <<"Organization Two, LLC">>] >>,
   defaultOrganization |-> "Unknown",
   useCalendarData |-> "true",
   usePeopleData |-> "true",
   useTitleKeywords |-> "true"]

\* no calendar event, no people data, no meeting
NoCalendarEvent == [present |-> FALSE, creator |-> Undefined, attendees |-> <<>>]

NoPeople ==
  [present |-> FALSE, company |-> Undefined, creator |-> Undefined,
   attendees |-> <<>>]

NullMeeting ==
  [isNull |-> TRUE, google_calendar_event |-> NoCalendarEvent,
   title |-> Undefined, people |-> NoPeople]

\* a detector built without arguments that has not been called
DetectorIdle ==
  /\ detConfig = DEFAULT_CONFIG
  /\ detMeeting = NullMeeting
  /\ detPc = "idle"
  /\ detResult = Undefined

\* no file at the path of the flat-file sink
NoSinkFile == [kind |-> "absent", items |-> <<>>]

\* a flat-file sink in overwrite mode that has not been used
JsonFileIdle ==
  /\ jfAppend = FALSE
  /\ jfFile = NoSinkFile
  /\ jfStart = NoSinkFile
  /\ jfSent = <<>>

NoTranscript == [present |-> FALSE, segments |-> <<>>]

NoDuration == [defined |-> FALSE, value |-> 0]

\* no payload built
PayloadIdle ==
  /\ plTranscript = NoTranscript
  /\ plPc = "idle"
  /\ plDuration = NoDuration

\* the scheduler script is not running
SchedulerIdle ==
  /\ schInterval = 0
  /\ schUntilFire = 0
  /\ schChildren = <<>>
  /\ schSpawned = 0

UtilitiesIdle == JsonFileIdle /\ PayloadIdle /\ SchedulerIdle

\* a MeetingMonitor's client: webhook configured, no template policy
ClientIdle ==
  /\ pmCaller = "monitor"
  /\ pmWebhookSet = TRUE
  /\ tplConfig = NoPolicy
  /\ MeetingCallIdle

ComponentsIdle ==
  /\ DiskIdle /\ OutputsIdle /\ NotifierIdle /\ ClientIdle /\ DetectorIdle
  /\ UtilitiesIdle

InitState == StateManagerConstructed /\ SendIdle /\ MonitorIdle /\ ComponentsIdle

\* time passes
Tick ==
  /\ \E d \in TickHours :
       /\ clock + d <= MaxClock
       /\ clock' = clock + d
  /\ UNCHANGED <<state, ret, skipCalls, lastTrueAt, streakCalls, successCalls>>
  /\ UNCHANGED <<sendVars, monVars, compVars>>

SumCalls == skipCalls["m1"] + skipCalls["m2"]

\* a caller invokes shouldNotifyForSkipped
CallShouldNotifyForSkipped ==
  /\ SumCalls < MaxSkipCalls
  /\ \E id \in Ids, title \in Titles :
       LET r == ShouldNotifyForSkipped(state, id, title,
                                       "missing_required_template", clock)
       IN /\ state' = r.state
          /\ ret' = [op |-> "shouldNotifyForSkipped", id |-> id,
                     value |-> r.value,
                     call |-> skipCalls[id] + 1,
                     elapsed |-> IF lastTrueAt[id] = NullTime THEN NullTime
                                 ELSE clock - lastTrueAt[id]]
          /\ skipCalls' = [skipCalls EXCEPT ![id] = @ + 1]
          /\ lastTrueAt' = IF r.value THEN [lastTrueAt EXCEPT ![id] = clock]
                           ELSE lastTrueAt
  /\ UNCHANGED <<clock, streakCalls, successCalls>>
  /\ UNCHANGED <<sendVars, monVars, compVars>>

\* a caller invokes recordFailure
CallRecordFailure ==
  /\ state.failureTracking.consecutiveFailures < MaxStreak
  /\ LET r == RecordFailure(state, clock)
     IN /\ state' = r.state
        /\ ret' = [op |-> "recordFailure", shouldNotify |-> r.shouldNotify,
                   count |-> r.count, previousFailures |-> r.previousFailures]
  /\ streakCalls' = streakCalls + 1
  /\ UNCHANGED <<clock, skipCalls, lastTrueAt, successCalls>>
  /\ UNCHANGED <<sendVars, monVars, compVars>>

\* a caller invokes recordSuccess
CallRecordSuccess ==
  /\ state' = RecordSuccess(state, clock)
  /\ ret' = [op |-> "recordSuccess",
             previousFailures |-> state.failureTracking.consecutiveFailures]
  /\ streakCalls' = 0
  /\ successCalls' = IF successCalls < 2 THEN successCalls + 1 ELSE successCalls
  /\ UNCHANGED <<clock, skipCalls, lastTrueAt>>
  /\ UNCHANGED <<sendVars, monVars, compVars>>

NextSkip == Tick \/ CallShouldNotifyForSkipped

SpecSkip == InitState /\ [][NextSkip]_vars

NextStreak == Tick \/ CallRecordFailure \/ CallRecordSuccess

SpecStreak == InitState /\ [][NextStreak]_vars

(***************************************************************************)
(* WebhookClient.sendToWebhook                                             *)
(***************************************************************************)
RECURSIVE Pow2(_)
Pow2(n) == IF n <= 0 THEN 1 ELSE 2 * Pow2(n - 1)

\* JavaScript `v || d` on numbers: 0 is falsy
OrDefault(v, d) == IF v = 0 THEN d ELSE v

\* mutant: the configured value is ignored
EffMaxRetries_Ignored(cfg) == DefaultMaxRetries

\* const maxRetries = this.webhookConfig.maxRetries || 3
EffMaxRetries(cfg) == OrDefault(cfg.maxRetries, DefaultMaxRetries)

\* const retryDelay = this.webhookConfig.retryDelay || 1000
EffRetryDelay(cfg) == OrDefault(cfg.retryDelay, DefaultRetryDelay)

\* response.ok
ResponseOk(status) == status >= 200 /\ status <= 299

\* mutant: strict comparison, one attempt short
WithinBudget_Strict(r, maxRetries) == r < maxRetries

\* while (retries <= maxRetries) / if (retries <= maxRetries)
WithinBudget(r, maxRetries) == r <= maxRetries

\* mutant: the exponent is not reduced by one
BackoffDelay_OffByOne(strategy, retryDelay, r) ==
  IF strategy = "exponential" THEN retryDelay * Pow2(r) ELSE retryDelay * r

\* retryStrategy === 'exponential' ? retryDelay * 2^(retries-1) : retryDelay * retries
BackoffDelay(strategy, retryDelay, r) ==
  IF strategy = "exponential" THEN retryDelay * Pow2(r - 1) ELSE retryDelay * r

\* mutant: the signature is computed outside the try block
CatchInLoop_SignOutside(kind) == IF kind = "sign" THEN "propagates" ELSE "caught"

\* what the catch clause of the loop body does with a thrown error
CatchInLoop(kind) == "caught"

WebhookConfigs ==
  [maxRetries : 0..MaxRetriesCfg,
   retryStrategy : {"linear", "exponential"},
   retryDelay : RetryDelays,
   secret : BOOLEAN]

InitSend ==
  /\ StateManagerConstructed
  /\ MonitorIdle
  /\ ComponentsIdle
  /\ webhookConfig \in WebhookConfigs
  /\ sendPc = "idle"
  /\ retries = 0
  /\ lastError = NoError
  /\ delay = 0
  /\ sendResult = NoResult
  /\ attempts = 0
  /\ httpCalls = 0
  /\ failed = 0
  /\ slept = <<>>

\* lines 626-641: read the configuration, retries = 0, enter the loop
SendBegin ==
  /\ sendPc = "idle"
  /\ UNCHANGED <<smVars, monVars, compVars>>
  /\ sendPc' = "attempt"
  /\ retries' = 0
  /\ lastError' = NoError
  /\ UNCHANGED <<webhookConfig, delay, sendResult, attempts, httpCalls, failed, slept>>

\* lines 682-690 and 693-698: after a failed attempt
AfterFailure(kind, status) ==
  /\ lastError' = [kind |-> kind, status |-> status]
  /\ retries' = retries + 1
  /\ failed' = failed + 1
  /\ IF WithinBudget(retries + 1, EffMaxRetries(webhookConfig))
       THEN /\ delay' = BackoffDelay(webhookConfig.retryStrategy,
                                     EffRetryDelay(webhookConfig), retries + 1)
            /\ sendPc' = "backoff"
            /\ sendResult' = sendResult
       ELSE /\ delay' = delay
            /\ sendPc' = "done"
            /\ sendResult' = [kind |-> "failure", retries |-> retries + 1, statusCode |-> 0]

\* lines 642-671: the request is answered with a 2xx status
AttemptOk ==
  /\ sendPc = "attempt"
  /\ UNCHANGED <<smVars, monVars, compVars>>
  /\ \E s \in Statuses :
       /\ ResponseOk(s)
       /\ sendResult' = [kind |-> "success", retries |-> retries, statusCode |-> s]
  /\ sendPc' = "done"
  /\ attempts' = attempts + 1
  /\ httpCalls' = httpCalls + 1
  /\ UNCHANGED <<webhookConfig, retries, lastError, delay, failed, slept>>

\* lines 673-676: the request is answered with a non-2xx status
AttemptHttpError ==
  /\ sendPc = "attempt"
  /\ UNCHANGED <<smVars, monVars, compVars>>
  /\ \E s \in Statuses :
       /\ ~ResponseOk(s)
       /\ AfterFailure("http", s)
  /\ attempts' = attempts + 1
  /\ httpCalls' = httpCalls + 1
  /\ UNCHANGED <<webhookConfig, slept>>

\* lines 677-680: fetch rejects (network error)
AttemptNetworkError ==
  /\ sendPc = "attempt"
  /\ UNCHANGED <<smVars, monVars, compVars>>
  /\ attempts' = attempts + 1
  /\ httpCalls' = httpCalls + 1
  /\ IF CatchInLoop("network") = "caught"
       THEN AfterFailure("network", 0)
       ELSE /\ sendPc' = "done"
            /\ sendResult' = [kind |-> "threw", retries |-> retries, statusCode |-> 0]
            /\ UNCHANGED <<retries, lastError, delay, failed>>
  /\ UNCHANGED <<webhookConfig, slept>>

\* lines 649-654, 708-725: generateSignature throws before fetch is called
AttemptSignError ==
  /\ sendPc = "attempt"
  /\ UNCHANGED <<smVars, monVars, compVars>>
  /\ webhookConfig.secret
  /\ attempts' = attempts + 1
  /\ IF CatchInLoop("sign") = "caught"
       THEN AfterFailure("sign", 0)
       ELSE /\ sendPc' = "done"
            /\ sendResult' = [kind |-> "threw", retries |-> retries, statusCode |-> 0]
            /\ UNCHANGED <<retries, lastError, delay, failed>>
  /\ UNCHANGED <<webhookConfig, httpCalls, slept>>

\* line 689: the backoff sleep completes
Backoff ==
  /\ sendPc = "backoff"
  /\ UNCHANGED <<smVars, monVars, compVars>>
  /\ slept' = Append(slept, delay)
  /\ sendPc' = "attempt"
  /\ UNCHANGED <<webhookConfig, retries, lastError, delay, sendResult,
                 attempts, httpCalls, failed>>

NextSend ==
  \/ SendBegin
  \/ AttemptOk
  \/ AttemptHttpError
  \/ AttemptNetworkError
  \/ AttemptSignError
  \/ Backoff

SpecSend == InitSend /\ [][NextSend]_vars

\* every fetch and every sleep completes
FairSpecSend == SpecSend /\ WF_vars(NextSend)

(***************************************************************************)
(* WebhookClient.processUnprocessedMeetings and MeetingMonitor             *)
(***************************************************************************)
Range(seq) == {seq[i] : i \in 1..Len(seq)}

\* Set.prototype.add on a Set kept in insertion order
SetAdd(seq, x) == IF x \in Range(seq) THEN seq ELSE Append(seq, x)

RECURSIVE IdsUpTo(_, _)
IdsUpTo(ledger, n) ==
  IF n = 0 THEN <<>> ELSE SetAdd(IdsUpTo(ledger, n - 1), ledger[n].id)

\* getProcessedIds(): new Set(processedMeetings.map(m => m.id))
GetProcessedIds(st) == IdsUpTo(st.processedMeetings, Len(st.processedMeetings))

\* addProcessedMeeting(meeting) at time now
AddProcessedMeeting(st, id, title, success, now) ==
  [st EXCEPT !.processedMeetings =
     Append(@, [id |-> id, title |-> title, success |-> success,
                processed_at |-> now])]

\* updateLastCheckTimestamp() at time now
UpdateLastCheckTimestamp(st, now) == [st EXCEPT !.lastCheckTimestamp = now]

\* JSON.stringify leaves out a member whose value is undefined
DropUndefined(m) ==
  IF m.id = "undefined"
    THEN [title |-> m.title, success |-> m.success, processed_at |-> m.processed_at]
    ELSE m

\* JSON.stringify(this.state, null, 2): the text, written as the value
\* JSON.parse reads back from it
Stringify_NoSkips(st) ==
  [lastCheckTimestamp |-> st.lastCheckTimestamp,
   processedMeetings |->
     [i \in DOMAIN st.processedMeetings |-> DropUndefined(st.processedMeetings[i])],
   failureTracking |-> st.failureTracking]

Stringify(st) ==
  [lastCheckTimestamp |-> st.lastCheckTimestamp,
   processedMeetings |->
     [i \in DOMAIN st.processedMeetings |-> DropUndefined(st.processedMeetings[i])],
   skippedMeetings |-> st.skippedMeetings,
   failureTracking |-> st.failureTracking]

\* save(): the temp file is written and renamed over the state file
Saved(st) == [exists |-> TRUE, kind |-> "object", content |-> Stringify(st)]

\* created_at of the meetings upstream, in hours: m1 exists from the start,
\* m2 is created a day later; a document may also come without any id
CreatedAt(id) == IF id = "m2" THEN HoursPerDay ELSE 0

Docs == {[id |-> id, created_at |-> CreatedAt(id)] : id \in Ids \cup {""}}

\* the pages of at most maxPage documents getDocuments may return at time now
PagesUpTo(now, maxPage) ==
  UNION {[1..n -> {d \in Docs : d.created_at <= now}] : n \in 0..maxPage}

Pages(now) == PagesUpTo(now, MaxPage)

\* doc.document_id || doc.id || ''
DocKey(doc) == doc.id

\* the title the upstream service lists for a meeting
TitleOf(id) == IF id = "m1" THEN "Standup" ELSE "Review"

\* mutant: the processed set is not consulted
IsUnprocessed_DateOnly(doc, since, pids) == ~(doc.created_at < since)

\* the filter callback: not older than `since` and not in processedIds
IsUnprocessed(doc, since, pids) ==
  /\ ~(doc.created_at < since)
  /\ DocKey(doc) \notin Range(pids)

\* documents.docs.filter(...)
FilterDocs(docs, since, pids) ==
  SelectSeq(docs, LAMBDA d : IsUnprocessed(d, since, pids))

\* what WebhookClient.processMeeting can do with one document: the fetch of
\* the document, its panels or its transcript fails (failed result, nothing
\* sent), template validation rejects it (skipped result, nothing sent), or
\* the payload is POSTed and sendToWebhook reports success or terminal failure
Outcomes == {"fetch_error", "skipped", "delivered", "delivery_failed"}

ResultOf(outcome, id) ==
  [success |-> outcome = "delivered",
   skipped |-> outcome = "skipped",
   skipReason |-> IF outcome = "skipped" THEN "missing_required_template"
                  ELSE "none",
   docId |-> id]

Posts(outcome) == outcome \in {"delivered", "delivery_failed"}

\* processedIdsArray[k] with a 0-based k; undefined outside the array
ArrayAt(arr, k) == IF k >= 0 /\ k < Len(arr) THEN arr[k + 1] ELSE "undefined"

\* docsMap.get(meetingId)?.title || 'Unknown'
TitleIn(docs, id) ==
  IF \E i \in 1..Len(docs) : DocKey(docs[i]) = id THEN TitleOf(id) ELSE "Unknown"

\* handleMeetingResult(meetingId, meetingTitle, result) at time now: the new
\* state and the notifications sent
HandleMeetingResult_SkipRecorded(st, id, title, result, now) ==
  IF result.success
    THEN [state |-> AddProcessedMeeting(st, id, title, TRUE, now),
          notes |-> <<[kind |-> "success", id |-> id]>>]
  ELSE [state |-> AddProcessedMeeting(st, id, title, FALSE, now),
        notes |-> <<[kind |-> "failure", id |-> id]>>]

HandleMeetingResult(st, id, title, result, now) ==
  IF result.success
    THEN [state |-> AddProcessedMeeting(st, id, title, TRUE, now),
          notes |-> <<[kind |-> "success", id |-> id]>>]
  ELSE IF result.skipped /\ result.skipReason = "missing_required_template"
    THEN LET r == ShouldNotifyForSkipped(st, id, title, result.skipReason, now)
         IN [state |-> r.state,
             notes |-> IF r.value
                         THEN <<[kind |-> "template_missing", id |-> id]>>
                         ELSE <<>>]
  ELSE [state |-> AddProcessedMeeting(st, id, title, FALSE, now),
        notes |-> <<[kind |-> "failure", id |-> id]>>]

\* handleError(error) at time now: the new state and the notifications sent
HandleError_MovesTimestamp(st, now) ==
  LET r == RecordFailure(st, now)
  IN [state |-> UpdateLastCheckTimestamp(r.state, now),
      notes |-> IF r.shouldNotify
                  THEN <<[kind |-> "error", id |-> "none"]>>
                  ELSE <<>>]

HandleError(st, now) ==
  LET r == RecordFailure(st, now)
  IN [state |-> r.state,
      notes |-> IF r.shouldNotify
                  THEN <<[kind |-> "error", id |-> "none"]>>
                  ELSE <<>>]

SuccessIds(st) ==
  {st.processedMeetings[i].id :
     i \in {j \in 1..Len(st.processedMeetings) : st.processedMeetings[j].success}}

\* MeetingMonitor.processUnprocessedMeetings, lines 434-445, and the client's
\* lines 780-795: the state is read, the page is fetched and filtered
BatchStartWith(maxRuns, maxPage) ==
  /\ monPc = "idle"
  /\ runs < maxRuns
  /\ runs' = runs + 1
  /\ \E pg \in PagesUpTo(clock, maxPage) :
       /\ page' = pg
       /\ unprocessedDocs' =
            FilterDocs(pg, state.lastCheckTimestamp, GetProcessedIds(state))
  /\ processedIds' = GetProcessedIds(state)
  /\ loopIdx' = 1
  /\ results' = <<>>
  /\ handleIdx' = 1
  /\ notified' = <<>>
  /\ posted' = <<>>
  /\ startSuccess' = SuccessIds(state)
  /\ monPc' = "loop"
  /\ UNCHANGED <<state, clock, file>>
  /\ UNCHANGED <<sendVars, smHistory, compVars>>

BatchStart == BatchStartWith(MaxRuns, MaxPage)

\* the client's getDocuments rejects: catch (handleError), finally (save)
BatchFetchErrorWith(maxRuns) ==
  /\ monPc = "idle"
  /\ runs < maxRuns
  /\ state.failureTracking.consecutiveFailures < MaxStreak
  /\ runs' = runs + 1
  /\ LET h == HandleError(state, clock)
     IN /\ state' = h.state
        /\ notified' = h.notes
        /\ file' = Saved(h.state)
  /\ page' = <<>>
  /\ unprocessedDocs' = <<>>
  /\ processedIds' = GetProcessedIds(state)
  /\ loopIdx' = 1
  /\ results' = <<>>
  /\ handleIdx' = 1
  /\ posted' = <<>>
  /\ startSuccess' = SuccessIds(state)
  /\ monPc' = "finished"
  /\ UNCHANGED clock
  /\ UNCHANGED <<sendVars, smHistory, compVars>>

BatchFetchError == BatchFetchErrorWith(MaxRuns)

\* lines 799-801: a document without an id is passed over
ClientSkipDocWithoutId ==
  /\ monPc = "loop"
  /\ loopIdx <= Len(unprocessedDocs)
  /\ DocKey(unprocessedDocs[loopIdx]) = ""
  /\ loopIdx' = loopIdx + 1
  /\ UNCHANGED <<monPc, runs, page, processedIds, unprocessedDocs, results,
                 handleIdx, notified, file, posted, startSuccess>>
  /\ UNCHANGED <<state, clock>>
  /\ UNCHANGED <<sendVars, smHistory, compVars>>

\* lines 803-808: processMeeting(documentId), push the result, add the id
\* the for loop of lines 798-809 after the result of document k: a failed
\* result is pushed like any other and the loop goes on
NextDoc_StopOnFailure(k, result, n) == IF result.success THEN k + 1 ELSE n + 1

NextDoc(k, result, n) == k + 1

ClientProcessMeeting ==
  /\ monPc = "loop"
  /\ loopIdx <= Len(unprocessedDocs)
  /\ DocKey(unprocessedDocs[loopIdx]) # ""
  /\ LET documentId == DocKey(unprocessedDocs[loopIdx])
     IN /\ \E o \in Outcomes :
             /\ results' = Append(results, ResultOf(o, documentId))
             /\ posted' = IF Posts(o) THEN Append(posted, documentId) ELSE posted
             /\ loopIdx' = NextDoc(loopIdx, ResultOf(o, documentId),
                                   Len(unprocessedDocs))
        /\ processedIds' = SetAdd(processedIds, documentId)
  /\ UNCHANGED <<monPc, runs, page, unprocessedDocs, handleIdx, notified, file,
                 startSuccess>>
  /\ UNCHANGED <<state, clock>>
  /\ UNCHANGED <<sendVars, smHistory, compVars>>

\* the client's loop has run out and its results are returned to the monitor
ClientLoopDone_AfterFirst == monPc = "loop" /\ loopIdx > 1

ClientLoopDone == monPc = "loop" /\ loopIdx > Len(unprocessedDocs)

\* lines 447-450 and 481-483: no result, early return through finally
BatchNoNewMeetings_ReturnBeforeFinally ==
  /\ ClientLoopDone
  /\ results = <<>>
  /\ monPc' = "finished"
  /\ UNCHANGED <<runs, page, processedIds, unprocessedDocs, loopIdx, results,
                 handleIdx, notified, file, posted, startSuccess>>
  /\ UNCHANGED <<state, clock>>
  /\ UNCHANGED <<sendVars, smHistory, compVars>>

BatchNoNewMeetings ==
  /\ ClientLoopDone
  /\ results = <<>>
  /\ file' = Saved(state)
  /\ monPc' = "finished"
  /\ UNCHANGED <<runs, page, processedIds, unprocessedDocs, loopIdx, results,
                 handleIdx, notified, posted, startSuccess>>
  /\ UNCHANGED <<state, clock>>
  /\ UNCHANGED <<sendVars, smHistory, compVars>>

\* lines 454-464: the documents are fetched again for their titles
BatchFetchTitles ==
  /\ ClientLoopDone
  /\ results # <<>>
  /\ handleIdx' = 1
  /\ monPc' = "handle"
  /\ UNCHANGED <<runs, page, processedIds, unprocessedDocs, loopIdx, results,
                 notified, file, posted, startSuccess>>
  /\ UNCHANGED <<state, clock>>
  /\ UNCHANGED <<sendVars, smHistory, compVars>>

\* the second getDocuments rejects: catch (handleError), finally (save)
BatchFetchTitlesError ==
  /\ ClientLoopDone
  /\ results # <<>>
  /\ state.failureTracking.consecutiveFailures < MaxStreak
  /\ LET h == HandleError(state, clock)
     IN /\ state' = h.state
        /\ notified' = notified \o h.notes
        /\ file' = Saved(h.state)
  /\ monPc' = "finished"
  /\ UNCHANGED <<runs, page, processedIds, unprocessedDocs, loopIdx, results,
                 handleIdx, posted, startSuccess>>
  /\ UNCHANGED clock
  /\ UNCHANGED <<sendVars, smHistory, compVars>>

\* lines 465-472: the i-th result is handled under the id found in the array
\* of processed ids
BatchHandleResult ==
  /\ monPc = "handle"
  /\ handleIdx <= Len(results)
  /\ LET i == handleIdx - 1
         meetingId == ArrayAt(processedIds, Len(processedIds) - Len(results) + i)
         h == HandleMeetingResult(state, meetingId, TitleIn(page, meetingId),
                                  results[handleIdx], clock)
     IN /\ state' = h.state
        /\ notified' = notified \o h.notes
  /\ handleIdx' = handleIdx + 1
  /\ UNCHANGED <<monPc, runs, page, processedIds, unprocessedDocs, loopIdx,
                 results, file, posted, startSuccess>>
  /\ UNCHANGED clock
  /\ UNCHANGED <<sendVars, smHistory, compVars>>

\* lines 474-476 and 481-483: timestamp, recordSuccess, save
BatchFinish ==
  /\ monPc = "handle"
  /\ handleIdx > Len(results)
  /\ LET st == RecordSuccess(UpdateLastCheckTimestamp(state, clock), clock)
     IN /\ state' = st
        /\ file' = Saved(st)
  /\ monPc' = "finished"
  /\ UNCHANGED <<runs, page, processedIds, unprocessedDocs, loopIdx, results,
                 handleIdx, notified, posted, startSuccess>>
  /\ UNCHANGED clock
  /\ UNCHANGED <<sendVars, smHistory, compVars>>

\* the process of this run exits; the next run is a new process
ProcessExit ==
  /\ monPc = "finished"
  /\ monPc' = "idle"
  /\ page' = <<>>
  /\ processedIds' = <<>>
  /\ unprocessedDocs' = <<>>
  /\ loopIdx' = 1
  /\ results' = <<>>
  /\ handleIdx' = 1
  /\ notified' = <<>>
  /\ posted' = <<>>
  /\ startSuccess' = {}
  /\ UNCHANGED <<runs, file>>
  /\ UNCHANGED <<state, clock>>
  /\ UNCHANGED <<sendVars, smHistory, compVars>>

\* time passes between two runs: the next run starts within the hour or on
\* a later day
TickBetweenRuns ==
  /\ monPc = "idle"
  /\ clock + HoursPerDay <= MaxRunClock
  /\ clock' = clock + HoursPerDay
  /\ UNCHANGED state
  /\ UNCHANGED <<sendVars, smHistory, monVars, compVars>>

Init == InitState

Next ==
  \/ BatchStart
  \/ BatchFetchError
  \/ ClientSkipDocWithoutId
  \/ ClientProcessMeeting
  \/ BatchNoNewMeetings
  \/ BatchFetchTitles
  \/ BatchFetchTitlesError
  \/ BatchHandleResult
  \/ BatchFinish
  \/ ProcessExit
  \/ TickBetweenRuns

Spec == Init /\ [][Next]_vars

\* the same monitor over more runs of shorter pages, so that failure streaks
\* build up and end
HealthBatchStart == BatchStartWith(MaxHealthRuns, MaxHealthPage)

HealthBatchFetchError == BatchFetchErrorWith(MaxHealthRuns)

NextHealth ==
  \/ HealthBatchStart
  \/ HealthBatchFetchError
  \/ ClientSkipDocWithoutId
  \/ ClientProcessMeeting
  \/ BatchNoNewMeetings
  \/ BatchFetchTitles
  \/ BatchFetchTitlesError
  \/ BatchHandleResult
  \/ BatchFinish
  \/ ProcessExit
  \/ TickBetweenRuns

SpecHealth == Init /\ [][NextHealth]_vars

(***************************************************************************)
(* Claims about sendToWebhook                                              *)
(***************************************************************************)
Min(a, b) == IF a <= b THEN a ELSE b

SendDone == sendPc = "done"

\* C2: for every configured maxRetries r >= 0 (0 included) one call makes at
\* most r+1 HTTP attempts, and exactly r+1 attempts when every attempt fails.
C2_RetryBound ==
  SendDone =>
    /\ httpCalls <= webhookConfig.maxRetries + 1
    /\ (sendResult.kind = "failure" => attempts = webhookConfig.maxRetries + 1)

C4_AlwaysRetried ==
  [][ /\ ( /\ sendPc = "attempt"
           /\ attempts' = attempts + 1
           /\ sendResult'.kind # "success"
           /\ attempts' <= webhookConfig.maxRetries )
         => sendPc' = "backoff"
      /\ (sendPc = "backoff" => sendPc' = "attempt") ]_vars

C4_Witness ==
  /\ sendPc = "attempt"
  /\ lastError = [kind |-> "http", status |-> 400]
  /\ Len(slept) = 2
  /\ webhookConfig.maxRetries = 2

C6_SleepsBetweenAttempts ==
  SendDone => Len(slept) = Min(failed, webhookConfig.maxRetries)

\* C7: every call terminates with a success result or a terminal-failure
\* result and never throws, whatever the responses, network errors and
\* signing errors.
C7_Terminates ==
  <>(SendDone /\ sendResult.kind \in {"success", "failure"})

C7_Witness ==
  /\ SendDone
  /\ sendResult.kind = "failure"
  /\ lastError.kind = "sign"
  /\ httpCalls > 0

(***************************************************************************)
(* Claims about the StateManager                                           *)
(***************************************************************************)
\* C8: for repeated calls of shouldNotifyForSkipped with one meeting id, with
\* less than 24 hours since the last notification the call returns true on
\* the 1st, 5th, 10th, ... call and false on every other call; with 24 hours
\* or more since the last notification it returns true whatever the count.
C8_SkipThrottle ==
  ret.op = "shouldNotifyForSkipped" =>
    IF ret.call = 1 THEN ret.value
    ELSE IF ret.elapsed < 24 THEN ret.value = (ret.call % 5 = 0)
    ELSE ret.value

C8_Witness ==
  /\ ret.op = "shouldNotifyForSkipped"
  /\ ret.call = 10
  /\ ret.value
  /\ ret.elapsed < 24
  /\ skipCalls[ret.id] = 10
  /\ clock >= 24

\* C9: from a streak of zero, the k-th consecutive recordFailure returns
\* count = k and previousFailures = k-1, and shouldNotify exactly when k = 1
\* or k is a multiple of 3.
C9_FailureStreak ==
  ret.op = "recordFailure" =>
    /\ ret.count = streakCalls
    /\ ret.previousFailures = streakCalls - 1
    /\ ret.shouldNotify = (streakCalls = 1 \/ streakCalls % 3 = 0)

C9_Witness ==
  /\ ret.op = "recordFailure"
  /\ streakCalls = 6
  /\ ret.shouldNotify
  /\ ret.previousFailures = 5

\* C10: recordSuccess sets the consecutive-failure count to 0 from any prior
\* value, and the first recordFailure after a success returns count = 1 and
\* shouldNotify = true.
C10_SuccessResets ==
  /\ ret.op = "recordSuccess" => state.failureTracking.consecutiveFailures = 0
  /\ (ret.op = "recordFailure" /\ successCalls > 0 /\ streakCalls = 1) =>
       (ret.count = 1 /\ ret.shouldNotify)

C10_Witness ==
  /\ ret.op = "recordSuccess"
  /\ ret.previousFailures = 4
  /\ state.failureTracking.consecutiveFailures = 0

(***************************************************************************)
(* Claims about batch runs                                                 *)
(***************************************************************************)
\* C1: a meeting id recorded in the processed ledger with success=true when
\* a batch run starts is not POSTed to the sink during that run, whatever
\* page of documents the upstream fetch returns.
C1_Idempotent == \A i \in 1..Len(posted) : posted[i] \notin startSuccess

C1_Witness ==
  /\ ClientLoopDone
  /\ posted # <<>>
  /\ \E i \in 1..Len(page) :
       /\ page[i].id \in startSuccess
       /\ ~(page[i].created_at < state.lastCheckTimestamp)

(***************************************************************************)
(* StateManager and the disk: save() in its two steps, a process that may  *)
(* die at any of them, and the construction of the next StateManager.      *)
(***************************************************************************)

MaxPersistOps == 2

\* a file cut short while it was written: a proper prefix of a JSON text
Truncated == [exists |-> TRUE, kind |-> "truncated"]

\* a file that is no JSON at all
Garbage == [exists |-> TRUE, kind |-> "garbage"]

\* the JSON text `null`
JsonNull == [exists |-> TRUE, kind |-> "null"]

\* a JSON object without processedMeetings
NoLedgerObject ==
  [exists |-> TRUE, kind |-> "object", content |-> [lastCheckTimestamp |-> 0]]

\* a state written before skippedMeetings and failureTracking existed
LegacyFile ==
  [exists |-> TRUE, kind |-> "object",
   content |-> [lastCheckTimestamp |-> 0, processedMeetings |-> <<>>]]

\* what may lie at the state path when the first StateManager is constructed
StartFiles == {NoFile, Truncated, Garbage, JsonNull, NoLedgerObject, LegacyFile}

DefaultFailureTracking(now) ==
  [consecutiveFailures |-> 0, lastNotificationTime |-> NullTime,
   lastSuccessTime |-> now]

\* lines 49-64 over the parsed object v: the missing members are filled in
FillMissing(v, now) ==
  [lastCheckTimestamp |-> v.lastCheckTimestamp,
   processedMeetings |-> v.processedMeetings,
   skippedMeetings |-> IF "skippedMeetings" \in DOMAIN v
                         THEN v.skippedMeetings ELSE <<>>,
   failureTracking |-> IF "failureTracking" \in DOMAIN v
                         THEN v.failureTracking
                         ELSE DefaultFailureTracking(now)]

\* loadOrInitialize(lookbackDays) at time now over the file f: whether it
\* threw, and the state it returned
LoadOrInitialize_NoCatch(f, now) ==
  IF ~f.exists
    THEN [threw |-> FALSE, state |-> FreshState(now)]
  ELSE IF f.kind \in {"truncated", "garbage", "null"}
    THEN [threw |-> TRUE, state |-> FreshState(now)]
  ELSE IF "processedMeetings" \notin DOMAIN f.content
    THEN [threw |-> TRUE, state |-> FreshState(now)]
  ELSE [threw |-> FALSE, state |-> FillMissing(f.content, now)]

LoadOrInitialize(f, now) ==
  IF ~f.exists
    THEN [threw |-> FALSE, state |-> FreshState(now)]
  ELSE IF f.kind \in {"truncated", "garbage"}
    \* JSON.parse throws a SyntaxError inside the try
    THEN [threw |-> FALSE, state |-> FreshState(now)]
  ELSE IF f.kind = "null"
    \* state.skippedMeetings throws a TypeError inside the try
    THEN [threw |-> FALSE, state |-> FreshState(now)]
  ELSE IF "processedMeetings" \notin DOMAIN f.content
    \* state.processedMeetings.length throws a TypeError inside the try
    THEN [threw |-> FALSE, state |-> FreshState(now)]
  ELSE [threw |-> FALSE, state |-> FillMissing(f.content, now)]

\* isProcessed(meetingId)
IsProcessed(st, id) ==
  \E i \in 1..Len(st.processedMeetings) : st.processedMeetings[i].id = id

\* the path save() writes the serialised state to before the rename
WriteTarget_InPlace == "filePath"

WriteTarget == "tempPath"

\* the first StateManager of a path, constructed over whatever lies there
InitPersist ==
  /\ SendIdle
  /\ monPc = "idle"
  /\ runs = 0
  /\ page = <<>>
  /\ processedIds = <<>>
  /\ unprocessedDocs = <<>>
  /\ loopIdx = 1
  /\ results = <<>>
  /\ handleIdx = 1
  /\ notified = <<>>
  /\ posted = <<>>
  /\ startSuccess = {}
  /\ file \in StartFiles
  /\ clock = 0
  /\ state = LoadOrInitialize(file, 0).state
  /\ ret = NoReturn
  /\ skipCalls = [id \in Ids |-> 0]
  /\ lastTrueAt = [id \in Ids |-> NullTime]
  /\ streakCalls = 0
  /\ successCalls = 0
  /\ ComponentsIdle

\* what no StateManager call and no step of save() touches
DiskFrame ==
  /\ UNCHANGED <<sendVars, smHistory, outVars, notifVars, pmVars, detVars, utilVars>>
  /\ UNCHANGED <<monPc, runs, page, processedIds, unprocessedDocs, loopIdx,
                 results, handleIdx, notified, posted, startSuccess>>

PersistFrame ==
  /\ UNCHANGED <<clock, tmpFile, savePc, fileBefore, lastSaved, lastLoad>>
  /\ UNCHANGED file
  /\ DiskFrame

CanCall ==
  /\ savePc = "idle"
  /\ persistOps < MaxPersistOps

PersistAddProcessedMeeting ==
  /\ CanCall
  /\ \E id \in Ids, success \in BOOLEAN :
       state' = AddProcessedMeeting(state, id, TitleOf(id), success, clock)
  /\ persistOps' = persistOps + 1
  /\ PersistFrame

PersistShouldNotifyForSkipped ==
  /\ CanCall
  /\ \E id \in Ids :
       state' = ShouldNotifyForSkipped(state, id, TitleOf(id),
                                       "missing_required_template", clock).state
  /\ persistOps' = persistOps + 1
  /\ PersistFrame

PersistRecordFailure ==
  /\ CanCall
  /\ state' = RecordFailure(state, clock).state
  /\ persistOps' = persistOps + 1
  /\ PersistFrame

PersistRecordSuccess ==
  /\ CanCall
  /\ state' = RecordSuccess(state, clock)
  /\ persistOps' = persistOps + 1
  /\ PersistFrame

PersistUpdateLastCheckTimestamp ==
  /\ CanCall
  /\ state' = UpdateLastCheckTimestamp(state, clock)
  /\ persistOps' = persistOps + 1
  /\ PersistFrame

\* save(), line 95: writeFileSync has written the whole text
SaveWrite ==
  /\ savePc = "idle"
  /\ savePc' = "written"
  /\ fileBefore' = file
  /\ IF WriteTarget = "tempPath"
       THEN tmpFile' = Saved(state) /\ UNCHANGED file
       ELSE file' = Saved(state) /\ UNCHANGED tmpFile
  /\ UNCHANGED <<state, clock, lastSaved, lastLoad, persistOps>>
  /\ DiskFrame

\* the process dies inside writeFileSync: part of the text is on disk
CrashInWrite ==
  /\ savePc = "idle"
  /\ savePc' = "crashed"
  /\ fileBefore' = file
  /\ IF WriteTarget = "tempPath"
       THEN tmpFile' = Truncated /\ UNCHANGED file
       ELSE file' = Truncated /\ UNCHANGED tmpFile
  /\ UNCHANGED <<state, clock, lastSaved, lastLoad, persistOps>>
  /\ DiskFrame

\* save(), line 98: renameSync moves the temp file over the state file
SaveRename ==
  /\ savePc = "written"
  /\ savePc' = "idle"
  /\ IF WriteTarget = "tempPath"
       THEN file' = tmpFile /\ tmpFile' = NoFile
       ELSE UNCHANGED <<file, tmpFile>>
  /\ lastSaved' = [done |-> TRUE, state |-> state]
  /\ fileBefore' = NoFile
  /\ UNCHANGED <<state, clock, lastLoad, persistOps>>
  /\ DiskFrame

\* the process dies between writeFileSync and renameSync
CrashBeforeRename ==
  /\ savePc = "written"
  /\ savePc' = "crashed"
  /\ UNCHANGED <<state, clock, file, tmpFile, fileBefore, lastSaved, lastLoad,
                 persistOps>>
  /\ DiskFrame

\* the process ends while no save() is running
ProcessStop ==
  /\ savePc = "idle"
  /\ savePc' = "stopped"
  /\ UNCHANGED <<state, clock, file, tmpFile, fileBefore, lastSaved, lastLoad,
                 persistOps>>
  /\ DiskFrame

\* new StateManager(options, logger) on the same path
Construct ==
  /\ savePc \in {"crashed", "stopped"}
  /\ LET l == LoadOrInitialize(file, clock)
     IN /\ state' = l.state
        /\ lastLoad' = [how |-> savePc, threw |-> l.threw]
        /\ savePc' = IF l.threw THEN savePc ELSE "idle"
  /\ fileBefore' = NoFile
  /\ UNCHANGED <<clock, file, tmpFile, lastSaved, persistOps>>
  /\ DiskFrame

NextPersist ==
  \/ PersistAddProcessedMeeting
  \/ PersistShouldNotifyForSkipped
  \/ PersistRecordFailure
  \/ PersistRecordSuccess
  \/ PersistUpdateLastCheckTimestamp
  \/ SaveWrite
  \/ CrashInWrite
  \/ SaveRename
  \/ CrashBeforeRename
  \/ ProcessStop
  \/ Construct
  \/ TickBetweenRuns

SpecPersist == InitPersist /\ [][NextPersist]_vars

(***************************************************************************)
(* OutputDestinationManager.sendToOutputs: four blocks in a row, each with *)
(* its own guard and its own try/catch.                                    *)
(***************************************************************************)

\* sinks whose send function can throw: sendToGoogleSheets only logs
CanThrow(sink) == sink # "google_sheets"

\* the guard of a sink's block: enabled, and its url / apiKey and baseId /
\* spreadsheetId / filePath present
Selected(c) == c.enabled /\ c.configured

\* where control goes after the catch of block k: on to the next block
AfterCatch_Abort(k) == Len(Sinks) + 1

AfterCatch(k) == k + 1

OutputConfigs ==
  [1..Len(Sinks) -> [enabled : BOOLEAN, configured : BOOLEAN]]

\* the constructor's config is any combination of the four sections
InitOutputs ==
  /\ StateManagerConstructed
  /\ SendIdle
  /\ MonitorIdle
  /\ DiskIdle
  /\ NotifierIdle
  /\ ClientIdle
  /\ DetectorIdle
  /\ UtilitiesIdle
  /\ outConfig \in OutputConfigs
  /\ outPc = 0
  /\ outResults = <<>>
  /\ outInvoked = <<>>
  /\ outThrew = {}

OutputsFrame ==
  UNCHANGED <<sendVars, smVars, monVars, diskVars, notifVars, pmVars, detVars, utilVars>>

\* sendToOutputs(payload) is called
OutputsBegin ==
  /\ outPc = 0
  /\ outPc' = 1
  /\ outResults' = <<>>
  /\ UNCHANGED <<outConfig, outInvoked, outThrew>>
  /\ OutputsFrame

\* the block's guard is false: the sink is passed over
SinkNotSelected ==
  /\ outPc \in 1..Len(Sinks)
  /\ ~Selected(outConfig[outPc])
  /\ outPc' = outPc + 1
  /\ UNCHANGED <<outConfig, outResults, outInvoked, outThrew>>
  /\ OutputsFrame

\* the send functions that were called and have not settled yet
InFlight == Len(outInvoked) - Len(outResults)

\* `await this.sendTo...(payload)`: the block is entered only when the
\* awaited call of the block before it has settled
PreviousSettled_NoAwait == InFlight <= 1

PreviousSettled == InFlight = 0

\* the block's guard is true: the sink's send function is called
SinkInvoked ==
  /\ outPc \in 1..Len(Sinks)
  /\ Selected(outConfig[outPc])
  /\ PreviousSettled
  /\ outInvoked' = Append(outInvoked, Sinks[outPc])
  /\ UNCHANGED <<outConfig, outPc, outResults, outThrew>>
  /\ OutputsFrame

\* the sink's send function returns its result
SinkReturns ==
  /\ outPc \in 1..Len(Sinks)
  /\ InFlight > 0
  /\ outResults' = Append(outResults,
                          [success |-> TRUE, destination |-> Sinks[outPc]])
  /\ outPc' = outPc + 1
  /\ UNCHANGED <<outConfig, outInvoked, outThrew>>
  /\ OutputsFrame

\* the sink's send function throws; the block's catch pushes a failed result
SinkThrows ==
  /\ outPc \in 1..Len(Sinks)
  /\ InFlight > 0
  /\ CanThrow(Sinks[outPc])
  /\ outThrew' = outThrew \cup {Sinks[outPc]}
  /\ outResults' = Append(outResults,
                          [success |-> FALSE, destination |-> Sinks[outPc]])
  /\ outPc' = AfterCatch(outPc)
  /\ UNCHANGED <<outConfig, outInvoked>>
  /\ OutputsFrame

NextOutputs ==
  \/ OutputsBegin
  \/ SinkNotSelected
  \/ SinkInvoked
  \/ SinkReturns
  \/ SinkThrows

SpecOutputs == InitOutputs /\ [][NextOutputs]_vars

\* the sinks that are enabled and configured, in block order
SelectedSinks(cfg) ==
  {k \in 1..Len(Sinks) : cfg[k].enabled /\ cfg[k].configured}

\* C15: sendToOutputs returns exactly one result per enabled and configured
\* sink, whichever of them throw: a sink that threw has a failed result,
\* every other such sink was invoked and has its own result.
C15_OneResultPerSink ==
  outPc = Len(Sinks) + 1 =>
    /\ Len(outResults) = Cardinality(SelectedSinks(outConfig))
    /\ \A k \in SelectedSinks(outConfig) :
         /\ \E i \in 1..Len(outResults) :
              /\ outResults[i].destination = Sinks[k]
              /\ outResults[i].success <=> Sinks[k] \notin outThrew
              /\ \A j \in 1..Len(outResults) :
                   outResults[j].destination = Sinks[k] => j = i
         /\ \E i \in 1..Len(outInvoked) : outInvoked[i] = Sinks[k]

C15_Witness ==
  /\ outPc = Len(Sinks) + 1
  /\ Cardinality(SelectedSinks(outConfig)) = 3
  /\ Cardinality(outThrew) = 1
  /\ Len(outResults) = 3

(***************************************************************************)
(* NotificationManager: the constructor picks the channels, send() fans a  *)
(* message out to them with Promise.allSettled.                            *)
(***************************************************************************)

MaxSends == 2

\* the channels in the order the constructor pushes them
ChannelNames == <<"slack", "discord", "email", "desktop">>

\* the channels a config enables, in constructor order
ChannelsOf(enabled) ==
  SelectSeq(ChannelNames, LAMBDA c : c \in enabled)

HasDesktop(chs) == \E i \in 1..Len(chs) : chs[i] = "desktop"

\* send(), lines 66-69: temporaryChannels
TemporaryChannels(chs, includeDesktop) ==
  IF includeDesktop /\ ~HasDesktop(chs) THEN Append(chs, "desktop") ELSE chs

\* this.channels after lines 66-69: temporaryChannels is a copy, so the
\* push does not reach it
ChannelsAfterSend_Aliased(chs, includeDesktop) ==
  TemporaryChannels(chs, includeDesktop)

ChannelsAfterSend(chs, includeDesktop) == chs

\* how a channel's send() promise can settle: fulfilled with a successful
\* result, fulfilled with a failed result, or rejected
Settlements == {"ok", "failed", "rejected"}

\* send(), lines 79-93: one result per settled promise
ProcessedResults_FirstRejectionWins(temp, settled) ==
  IF \E i \in 1..Len(settled) : settled[i] = "rejected"
    THEN <<>>
    ELSE [i \in 1..Len(temp) |->
            [channel |-> temp[i], success |-> settled[i] = "ok"]]

ProcessedResults(temp, settled) ==
  [i \in 1..Len(temp) |-> [channel |-> temp[i], success |-> settled[i] = "ok"]]

\* a NotificationManager constructed over any combination of channels
InitNotify ==
  /\ StateManagerConstructed
  /\ SendIdle
  /\ MonitorIdle
  /\ DiskIdle
  /\ OutputsIdle
  /\ ClientIdle
  /\ DetectorIdle
  /\ UtilitiesIdle
  /\ \E enabled \in SUBSET Range(ChannelNames) :
       /\ nmChannels = ChannelsOf(enabled)
       /\ nmConstructed = ChannelsOf(enabled)
  /\ nmPc = "idle"
  /\ nmTemp = <<>>
  /\ nmSettled = <<>>
  /\ nmResults = <<>>
  /\ nmFlags = <<>>

NotifyFrame ==
  UNCHANGED <<sendVars, smVars, monVars, diskVars, outVars, pmVars, detVars, utilVars>>

\* send() with no channel and no flag returns [] at once, lines 60-63
NotifySendNothing ==
  /\ nmPc = "idle"
  /\ Len(nmFlags) < MaxSends
  /\ Len(nmChannels) = 0
  /\ nmFlags' = Append(nmFlags, FALSE)
  /\ nmTemp' = <<>>
  /\ nmSettled' = <<>>
  /\ nmResults' = <<>>
  /\ UNCHANGED <<nmChannels, nmConstructed, nmPc>>
  /\ NotifyFrame

\* send(), lines 65-76: every dispatched channel's send() is called
NotifySendBegin ==
  /\ nmPc = "idle"
  /\ Len(nmFlags) < MaxSends
  /\ \E includeDesktop \in BOOLEAN :
       /\ Len(nmChannels) > 0 \/ includeDesktop
       /\ nmFlags' = Append(nmFlags, includeDesktop)
       /\ nmTemp' = TemporaryChannels(nmChannels, includeDesktop)
       /\ nmChannels' = ChannelsAfterSend(nmChannels, includeDesktop)
  /\ nmSettled' = [i \in 1..Len(nmTemp') |-> "pending"]
  /\ nmResults' = <<>>
  /\ nmPc' = "sending"
  /\ UNCHANGED nmConstructed
  /\ NotifyFrame

\* one of the pending promises settles
ChannelSettles ==
  /\ nmPc = "sending"
  /\ \E i \in 1..Len(nmSettled), how \in Settlements :
       /\ nmSettled[i] = "pending"
       /\ nmSettled' = [nmSettled EXCEPT ![i] = how]
  /\ UNCHANGED <<nmChannels, nmConstructed, nmPc, nmTemp, nmResults, nmFlags>>
  /\ NotifyFrame

\* all promises have settled: send() returns, lines 79-109
NotifySendReturn ==
  /\ nmPc = "sending"
  /\ \A i \in 1..Len(nmSettled) : nmSettled[i] # "pending"
  /\ nmResults' = ProcessedResults(nmTemp, nmSettled)
  /\ nmPc' = "idle"
  /\ UNCHANGED <<nmChannels, nmConstructed, nmTemp, nmSettled, nmFlags>>
  /\ NotifyFrame

NextNotify ==
  \/ NotifySendNothing
  \/ NotifySendBegin
  \/ ChannelSettles
  \/ NotifySendReturn

SpecNotify == InitNotify /\ [][NextNotify]_vars

\* getEnabledChannels()
GetEnabledChannels == nmChannels

LastFlag == nmFlags[Len(nmFlags)]

\* C16: send returns exactly one result per dispatched channel, the
\* dispatched channels being the configured ones plus a desktop channel iff
\* the flag is set and none is configured; a rejecting channel has a failed
\* result and every other channel is invoked and reports its own.
C16_OneResultPerChannel ==
  (nmPc = "idle" /\ Len(nmFlags) > 0) =>
    LET dispatched ==
          IF LastFlag /\ ~HasDesktop(nmConstructed)
            THEN Append(nmConstructed, "desktop") ELSE nmConstructed
    IN /\ Len(nmResults) = Len(dispatched)
       /\ Len(nmSettled) = Len(dispatched)
       /\ \A i \in 1..Len(dispatched) :
            /\ nmResults[i].channel = dispatched[i]
            /\ nmSettled[i] = "rejected" => ~nmResults[i].success
            /\ nmSettled[i] = "ok" => nmResults[i].success

C16_Witness ==
  /\ nmPc = "idle"
  /\ Len(nmFlags) > 0
  /\ LastFlag
  /\ nmConstructed = <<"slack", "discord">>
  /\ nmSettled = <<"ok", "rejected", "ok">>
  /\ Len(nmResults) = 3

\* C17: a send with the flag set leaves the configured channels as they
\* were: getEnabledChannels answers as after construction, and a later send
\* without the flag dispatches to exactly the configured channels.
C17_FlagIsPerCall ==
  /\ GetEnabledChannels = nmConstructed
  /\ (nmPc = "sending" /\ ~LastFlag) => nmTemp = nmConstructed

C17_Witness ==
  /\ Len(nmFlags) = 2
  /\ nmFlags[1]
  /\ ~nmFlags[2]
  /\ nmPc = "sending"
  /\ ~HasDesktop(nmConstructed)
  /\ ~HasDesktop(nmTemp)

(***************************************************************************)
(* One meeting: WebhookClient.processMeeting with its template check, and  *)
(* MeetingMonitor.processMeeting around it.                                *)
(***************************************************************************)

MaxPanels == 2
MaxProcessCalls == 2

TemplateIds == {"T1", "T2"}

\* template_slug values a panel can carry
Slugs == TemplateIds \cup {"other"}

RequiredLists == {<<>>, <<"T1">>, <<"T2">>, <<"T1", "T2">>}

\* the template policies setTemplateValidationConfig can install
Policies ==
  [set : {TRUE}, enabled : BOOLEAN, mode : {"disabled", "any", "specific"},
   requiredTemplateIds : RequiredLists]

PanelLists == UNION {[1..n -> Slugs] : n \in 0..MaxPanels}

\* panels.filter(panel => requiredTemplateIds.includes(panel.template_slug))
MatchingPanels(required, panels) ==
  SelectSeq(panels, LAMBDA slug : slug \in Range(required))

\* validateTemplates(panels, meetingTitle): "skip" or "admit"
ValidateTemplates_ModeIgnored(cfg, panels) ==
  IF ~cfg.set \/ ~cfg.enabled THEN "admit"
  ELSE IF Len(MatchingPanels(cfg.requiredTemplateIds, panels)) = 0 THEN "skip"
  ELSE "admit"

ValidateTemplates(cfg, panels) ==
  IF ~cfg.set \/ ~cfg.enabled THEN "admit"
  ELSE IF cfg.mode = "disabled" THEN "admit"
  ELSE IF cfg.mode \in {"any", "specific"}
    THEN IF Len(MatchingPanels(cfg.requiredTemplateIds, panels)) = 0
           THEN "skip" ELSE "admit"
  ELSE "admit"

\* whether a step of processMeeting runs inside its try block; the check of
\* this.webhookConfig comes before the try
InsideTry_FetchOutside(step) == step \notin {"config", "fetch"}

InsideTry(step) == step # "config"

\* the meeting the single-meeting calls are about
TheMeeting == "m1"

\* a client in any configuration state; the MeetingMonitor's constructor
\* always sets the webhook configuration
InitProcess ==
  /\ StateManagerConstructed
  /\ SendIdle
  /\ MonitorIdle
  /\ DiskIdle
  /\ OutputsIdle
  /\ NotifierIdle
  /\ DetectorIdle
  /\ UtilitiesIdle
  /\ pmCaller \in {"monitor", "client"}
  /\ pmWebhookSet \in BOOLEAN
  /\ pmCaller = "monitor" => pmWebhookSet
  /\ tplConfig \in Policies \cup {NoPolicy}
  /\ MeetingCallIdle

ProcessFrame ==
  /\ UNCHANGED <<pmCaller, pmWebhookSet, tplConfig>>
  /\ UNCHANGED <<sendVars, smHistory, diskVars, outVars, notifVars, detVars, utilVars>>
  /\ UNCHANGED <<monPc, runs, page, processedIds, unprocessedDocs, loopIdx,
                 results, handleIdx, posted, startSuccess>>

\* a step of the client's processMeeting fails: a failed result if the step
\* is inside the try, a rejection otherwise
StepFails(step) ==
  /\ pmFailedAt' = step
  /\ IF InsideTry(step)
       THEN /\ pmPc' = "returned"
            /\ pmResult' = ResultOf("fetch_error", TheMeeting)
       ELSE /\ pmPc' = "threw"
            /\ pmResult' = NoMeetingResult

\* processMeeting(documentId) is called; lines 327-329: no webhook config
CallWithoutConfig ==
  /\ pmPc = "idle"
  /\ pmCalls < MaxProcessCalls
  /\ ~pmWebhookSet
  /\ pmCalls' = pmCalls + 1
  /\ pmLedgerBefore' = state.processedMeetings
  /\ StepFails("config")
  /\ UNCHANGED <<pmPanels, pmValidation, pmPosts>>
  /\ UNCHANGED <<state, clock, notified, file>>
  /\ ProcessFrame

\* lines 333-339: the document or its panels cannot be fetched
CallFetchFails ==
  /\ pmPc = "idle"
  /\ pmCalls < MaxProcessCalls
  /\ pmWebhookSet
  /\ pmCalls' = pmCalls + 1
  /\ pmLedgerBefore' = state.processedMeetings
  /\ StepFails("fetch")
  /\ UNCHANGED <<pmPanels, pmValidation, pmPosts>>
  /\ UNCHANGED <<state, clock, notified, file>>
  /\ ProcessFrame

\* lines 333-339: document and panels are fetched
CallFetchesPanels ==
  /\ pmPc = "idle"
  /\ pmCalls < MaxProcessCalls
  /\ pmWebhookSet
  /\ pmCalls' = pmCalls + 1
  /\ pmLedgerBefore' = state.processedMeetings
  /\ pmPanels' \in PanelLists
  /\ pmPc' = "validate"
  /\ UNCHANGED <<pmResult, pmValidation, pmFailedAt, pmPosts>>
  /\ UNCHANGED <<state, clock, notified, file>>
  /\ ProcessFrame

\* lines 342-345: validateTemplates, and the early return of the skip
Validate ==
  /\ pmPc = "validate"
  /\ pmValidation' = ValidateTemplates(tplConfig, pmPanels)
  /\ IF pmValidation' = "skip"
       THEN /\ pmPc' = "returned"
            /\ pmResult' = ResultOf("skipped", TheMeeting)
       ELSE /\ pmPc' = "build"
            /\ UNCHANGED pmResult
  /\ UNCHANGED <<pmPanels, pmFailedAt, pmPosts, pmCalls, pmLedgerBefore>>
  /\ UNCHANGED <<state, clock, notified, file>>
  /\ ProcessFrame

\* lines 347-381: the template content, the transcript or the payload fails
BuildFails ==
  /\ pmPc = "build"
  /\ StepFails("build")
  /\ UNCHANGED <<pmPanels, pmValidation, pmPosts, pmCalls, pmLedgerBefore>>
  /\ UNCHANGED <<state, clock, notified, file>>
  /\ ProcessFrame

\* line 384: sendToWebhook returns its result, success or terminal failure
Deliver ==
  /\ pmPc = "build"
  /\ pmPosts' = pmPosts + 1
  /\ \E o \in {"delivered", "delivery_failed"} :
       /\ pmResult' = ResultOf(o, TheMeeting)
       /\ pmFailedAt' = IF o = "delivered" THEN "none" ELSE "delivery"
  /\ pmPc' = "returned"
  /\ UNCHANGED <<pmPanels, pmValidation, pmCalls, pmLedgerBefore>>
  /\ UNCHANGED <<state, clock, notified, file>>
  /\ ProcessFrame

\* MeetingMonitor.processMeeting, lines 418-427: the title is looked up,
\* the result is handled, the state is saved
MonitorHandlesResult ==
  /\ pmPc = "returned"
  /\ pmCaller = "monitor"
  /\ \E title \in {TitleOf(TheMeeting), "Unknown"} :
       LET h == HandleMeetingResult(state, TheMeeting, title, pmResult, clock)
       IN /\ state' = h.state
          /\ notified' = notified \o h.notes
          /\ file' = Saved(h.state)
  /\ pmPc' = "done"
  /\ UNCHANGED <<pmPanels, pmResult, pmValidation, pmFailedAt, pmPosts, pmCalls,
                 pmLedgerBefore>>
  /\ UNCHANGED clock
  /\ ProcessFrame

\* lines 418 and 423-427: getDocuments throws; handleError, rethrow, save
MonitorDocsFail ==
  /\ pmPc = "returned"
  /\ pmCaller = "monitor"
  /\ LET h == HandleError(state, clock)
     IN /\ state' = h.state
        /\ notified' = notified \o h.notes
        /\ file' = Saved(h.state)
  /\ pmPc' = "done"
  /\ UNCHANGED <<pmPanels, pmResult, pmValidation, pmFailedAt, pmPosts, pmCalls,
                 pmLedgerBefore>>
  /\ UNCHANGED clock
  /\ ProcessFrame

\* the call is over; the next one starts from scratch
CallOver ==
  /\ \/ pmPc \in {"done", "threw"}
     \/ pmPc = "returned" /\ pmCaller = "client"
  /\ pmPc' = "idle"
  /\ pmPanels' = <<>>
  /\ pmResult' = NoMeetingResult
  /\ pmValidation' = "none"
  /\ pmFailedAt' = "none"
  /\ pmPosts' = 0
  /\ notified' = <<>>
  /\ UNCHANGED <<pmCalls, pmLedgerBefore>>
  /\ UNCHANGED <<state, clock, file>>
  /\ ProcessFrame

NextProcess ==
  \/ CallWithoutConfig
  \/ CallFetchFails
  \/ CallFetchesPanels
  \/ Validate
  \/ BuildFails
  \/ Deliver
  \/ MonitorHandlesResult
  \/ MonitorDocsFail
  \/ CallOver

SpecProcess == InitProcess /\ [][NextProcess]_vars

Lenient(cfg) == ~cfg.set \/ ~cfg.enabled \/ cfg.mode = "disabled"

NoPanelMatches ==
  \A i \in 1..Len(pmPanels) : pmPanels[i] \notin Range(tplConfig.requiredTemplateIds)

\* C18: with no policy, with enabled = false or with mode = disabled the
\* template check admits the meeting, whatever the panels and whatever the
\* required ids.
C18_LenientAdmits ==
  (pmValidation # "none" /\ Lenient(tplConfig)) => pmValidation = "admit"

C18_Witness ==
  /\ pmValidation = "admit"
  /\ tplConfig.set
  /\ tplConfig.enabled
  /\ tplConfig.mode = "disabled"
  /\ tplConfig.requiredTemplateIds = <<"T1">>
  /\ pmPanels = <<"other">>

C20_NeverThrows == pmPc # "threw"

\* C20: processMeeting rejects when no webhook configuration is set; with
\* the configuration set it never rejects, and a failure of the fetch, of
\* the payload build or of the delivery gives a failed result.
C20_ThrowsOnlyUnconfigured ==
  /\ pmPc = "threw" <=> (pmFailedAt = "config" /\ ~pmWebhookSet)
  /\ (pmWebhookSet /\ pmFailedAt # "none") =>
       /\ pmPc \in {"returned", "done"}
       /\ ~pmResult.success

C20_Witness ==
  /\ pmWebhookSet
  /\ pmPc = "returned"
  /\ pmFailedAt = "fetch"
  /\ ~pmResult.success

(***************************************************************************)
(* Claims about persistence                                                *)
(***************************************************************************)

\* C12: when the process dies inside save(), with the temp file written in
\* part or in full and not yet renamed, the state file is what it was when
\* save() began, and the next StateManager on the path loads the state of
\* the last save() that completed.
C12_CrashKeepsPrevious ==
  [][ savePc = "crashed" =>
        /\ file = fileBefore
        /\ savePc' = "idle" =>
             /\ ~lastLoad'.threw
             /\ lastSaved.done => state' = lastSaved.state ]_vars

C12_Witness ==
  /\ lastLoad.how = "crashed"
  /\ savePc = "idle"
  /\ tmpFile.exists
  /\ lastSaved.done
  /\ state = lastSaved.state
  /\ Len(state.processedMeetings) > 0

\* C13: constructing a StateManager never throws because of what the state
\* file holds; over an absent or unparseable file the state is fresh: empty
\* processed and skip ledgers, failure count 0, last check at now minus
\* lookbackDays.
C13_TolerantLoad ==
  [][ (savePc \in {"crashed", "stopped"} /\ lastLoad' # lastLoad) =>
        /\ ~lastLoad'.threw
        /\ (~file.exists \/ file.kind \in {"truncated", "garbage"}) =>
             /\ state'.processedMeetings = <<>>
             /\ state'.skippedMeetings = <<>>
             /\ state'.failureTracking.consecutiveFailures = 0
             /\ state'.lastCheckTimestamp = clock - LookbackDays * HoursPerDay
      ]_vars

C13_Witness ==
  /\ lastLoad.how = "crashed"
  /\ ~lastLoad.threw
  /\ savePc = "idle"
  /\ file = Garbage
  /\ clock > 0
  /\ persistOps > 0
  /\ state = FreshState(clock)

HasRecoveryNote(notes) == \E i \in 1..Len(notes) : notes[i].kind = "recovery"

C11_RecoveryNotification ==
  [][ (monPc = "handle" /\ monPc' = "finished") =>
        (HasRecoveryNote(notified') <=>
           state.failureTracking.consecutiveFailures >= 3) ]_vars

(***************************************************************************)
(* Claims about batch runs                                                 *)
(***************************************************************************)

\* a result of this run that reports a failure although nothing was POSTed
\* for its document: an exception inside processMeeting
ExceptionResult(i) ==
  /\ ~results[i].success
  /\ ~results[i].skipped
  /\ results[i].docId \notin Range(posted)

\* C21: when processing a meeting raised an exception, the run ends with the
\* consecutive-failure count incremented, so above zero.
C21_ExceptionCountsAsFailure ==
  (monPc = "finished" /\ \E i \in 1..Len(results) : ExceptionResult(i)) =>
    state.failureTracking.consecutiveFailures > 0

\* the ids of the documents of a list, in order
KeysOf(docs) == [i \in 1..Len(docs) |-> DocKey(docs[i])]

\* the ids the results of this run were produced for, in order
ResultIds == [i \in 1..Len(results) |-> results[i].docId]

LoopOver == monPc \in {"handle", "finished"} /\ page # <<>>

\* C22, as stated: every document that survives the filter is attempted and
\* contributes exactly one result.
C22_OneResultPerSurvivor ==
  LoopOver => ResultIds = KeysOf(unprocessedDocs)

\* C22: every document that survives the filter and carries an id is
\* attempted and contributes exactly one result, in page order, whatever the
\* results before it; a surviving document without an id is passed over.
C22_OneResultPerSurvivorWithId ==
  LoopOver =>
    ResultIds = SelectSeq(KeysOf(unprocessedDocs), LAMBDA k : k # "")

C22_Witness ==
  /\ monPc = "handle"
  /\ Len(unprocessedDocs) = 2
  /\ Len(results) = 2
  /\ ~results[1].success
  /\ ~results[1].skipped
  /\ results[2].success

\* C23, as stated: a meeting is recorded and notified before the next one is
\* fetched or delivered, so at most one result is ever waiting to be handled.
C23_CompletionBeforeNext == Len(results) <= handleIdx

\* C23: the meetings of a run are attempted one after the other in page
\* order, all of them before any record or notify step; the results are then
\* handled one after the other in the order they were produced, each
\* sending at most one notification.
C23_DeliverAllThenHandle ==
  /\ monPc = "loop" => (handleIdx = 1 /\ notified = <<>>)
  /\ monPc = "handle" =>
       /\ loopIdx > Len(unprocessedDocs)
       /\ handleIdx <= Len(results) + 1
       /\ Len(notified) <= handleIdx - 1

C23_Witness ==
  /\ monPc = "handle"
  /\ handleIdx = 2
  /\ Len(results) = 2
  /\ Len(posted) = 2
  /\ Len(notified) = 1

NotesOfKind(kind) == SelectSeq(notified, LAMBDA n : n.kind = kind)

\* the results handled so far in this run that are plain failures
FailedHandled ==
  {i \in 1..(handleIdx - 1) : ~results[i].success /\ ~results[i].skipped}

\* how many of the failures s+1 .. s+n of a streak notify under the rule
\* "the 1st and every 3rd consecutive failure"
StreakNotifications(s, n) ==
  Cardinality({k \in (s + 1)..(s + n) : k = 1 \/ k % FailureNotifyEvery = 0})

\* C25: while the results of a run are handled, every handled outcome has
\* produced at most one notification, and the failure notifications are as
\* many as the failure-streak rule allows for the failed meetings handled so
\* far, for some streak the run could have started with: they do not grow by
\* one per failed meeting.
C25_NotificationsThrottled ==
  monPc = "handle" =>
    /\ Len(notified) <= handleIdx - 1
    /\ Len(NotesOfKind("success")) =
         Cardinality({i \in 1..(handleIdx - 1) : results[i].success})
    /\ \E s \in 0..MaxStreak :
         Len(NotesOfKind("failure")) =
           StreakNotifications(s, Cardinality(FailedHandled))

\* the ledger holds the id, and only with success = false
RecordedFailedOnly(id) ==
  /\ \E i \in 1..Len(state.processedMeetings) :
       state.processedMeetings[i].id = id
  /\ \A i \in 1..Len(state.processedMeetings) :
       state.processedMeetings[i].id = id =>
         ~state.processedMeetings[i].success

\* C26: a meeting whose earlier run ended in terminal failure is attempted
\* again: when a later run starts and the fetched page lists it, still
\* inside the date window, it is among the documents the run will attempt.
C26_FailedIsAttemptedAgain ==
  (monPc = "loop" /\ loopIdx = 1) =>
    \A i \in 1..Len(page) :
      ( /\ RecordedFailedOnly(DocKey(page[i]))
        /\ ~(page[i].created_at < state.lastCheckTimestamp) ) =>
        \E j \in 1..Len(unprocessedDocs) :
          DocKey(unprocessedDocs[j]) = DocKey(page[i])

\* C27: every batch run that completes without an error leaves the
\* consecutive-failure count at zero, a run that finds no new meeting
\* included.
C27_SuccessfulRunResetsStreak ==
  [][ (BatchNoNewMeetings \/ BatchFinish) =>
        state'.failureTracking.consecutiveFailures = 0 ]_vars

(***************************************************************************)
(* OrganizationDetector.detectOrganization                                 *)
(***************************************************************************)

\* longest attendee list of a meeting
MaxAttendees == 1

\* s.toLowerCase(), for the strings that occur
ToLowerCase(s) ==
  CASE s = "Eve@Org2.org" -> "eve@org2.org"
    [] s = "Org1 Weekly" -> "org1 weekly"
    [] s = "ORGANIZATION2 review" -> "organization2 review"
    [] s = "Lunch" -> "lunch"
    [] s = "Organization One, Inc." -> "organization one, inc."
    [] s = "Organization Two, LLC" -> "organization two, llc"
    [] OTHER -> s

\* email.split('@')[1]
DomainOf(email) ==
  CASE email \in {"admin@org1.com", "bob@org1.com"} -> "org1.com"
    [] email \in {"eve@org2.org"} -> "org2.org"
    [] email = "x@other.net" -> "other.net"
    [] OTHER -> Undefined

\* the proper substrings that matter, as <<text, part>>
Substrings ==
  { <<"org1 weekly", "org1">>,
    <<"organization2 review", "organization2">> }

\* text.includes(part)
Includes(text, part) == text = part \/ <<text, part>> \in Substrings

\* creator?.email of a calendar event or of the people data
CreatorEmails == {Undefined, "admin@org1.com", "Eve@Org2.org", "x@other.net"}

AttendeeEmails == {"bob@org1.com", "eve@org2.org"}

AttendeeLists == UNION {[1..n -> AttendeeEmails] : n \in 0..MaxAttendees}

CalendarEvents ==
  {NoCalendarEvent} \cup
  [present : {TRUE}, creator : CreatorEmails, attendees : AttendeeLists]

MeetingTitles == {Undefined, "Org1 Weekly", "ORGANIZATION2 review", "Lunch"}

PeopleData ==
  {NoPeople} \cup
  [present : {TRUE}, company : {Undefined, "Organization Two, LLC"},
   creator : CreatorEmails, attendees : AttendeeLists]

Meetings ==
  {NullMeeting} \cup
  [isNull : {FALSE}, google_calendar_event : CalendarEvents,
   title : MeetingTitles, people : PeopleData]

\* a use... member of the configuration: true, false or absent
Switches == {"true", "false", Undefined}

\* the configurations a detector is built with: the organizations of
\* DEFAULT_CONFIG, each switch true, false or absent, the default label
\* present or absent
DetectorConfigs ==
  [organizations : {DEFAULT_CONFIG.organizations},
   defaultOrganization : {"Unknown", Undefined},
   useCalendarData : Switches,
   usePeopleData : Switches,
   useTitleKeywords : Switches]

\* the name of the first organization of the list that satisfies Test
RECURSIVE FirstOrg(_, _, _)
FirstOrg(orgs, Test(_), k) ==
  IF k > Len(orgs) THEN Undefined
  ELSE IF Test(orgs[k]) THEN orgs[k].name
  ELSE FirstOrg(orgs, Test, k + 1)

\* org.emailAddresses?.some(email => email.toLowerCase() === creatorEmail)
HasAddress(org, creatorEmail) ==
  \E i \in 1..Len(org.emailAddresses) :
    ToLowerCase(org.emailAddresses[i]) = creatorEmail

\* org.emailDomains.some(d => domain.includes(d.toLowerCase()))
HasDomain(org, domain) ==
  \E i \in 1..Len(org.emailDomains) :
    Includes(domain, ToLowerCase(org.emailDomains[i]))

\* the creator's email: a direct address match first, then a domain match
FromCreatorEmail(cfg, email) ==
  LET creatorEmail == ToLowerCase(email)
      direct == FirstOrg(cfg.organizations,
                         LAMBDA org : HasAddress(org, creatorEmail), 1)
  IN IF direct # Undefined THEN direct
     ELSE FirstOrg(cfg.organizations,
                   LAMBDA org : HasDomain(org, DomainOf(creatorEmail)), 1)

\* the names counted in domainCounts, one entry per attendee and matching
\* organization, in the order the two loops meet them
RECURSIVE DomainHits(_, _, _, _)
DomainHits(cfg, attendees, a, o) ==
  IF a > Len(attendees) THEN <<>>
  ELSE IF o > Len(cfg.organizations) THEN DomainHits(cfg, attendees, a + 1, 1)
  ELSE LET org == cfg.organizations[o]
           hit == HasDomain(org, DomainOf(ToLowerCase(attendees[a])))
       IN (IF hit THEN <<org.name>> ELSE <<>>)
            \o DomainHits(cfg, attendees, a, o + 1)

CountOf(hits, name) == Cardinality({i \in 1..Len(hits) : hits[i] = name})

\* the organization with the most attendees: the loop over
\* Object.entries(domainCounts) keeps the first key with the highest count
MostAttendees(cfg, attendees) ==
  LET hits == DomainHits(cfg, attendees, 1, 1)
      Best(i) == \A j \in 1..Len(hits) :
                   CountOf(hits, hits[j]) <= CountOf(hits, hits[i])
  IN IF hits = <<>> THEN Undefined
     ELSE hits[CHOOSE i \in 1..Len(hits) :
                 Best(i) /\ \A j \in 1..(i - 1) : ~Best(j)]

\* detectFromCalendarData(calendarEvent)
DetectFromCalendarData(cfg, calendarEvent) ==
  IF ~calendarEvent.present THEN Undefined
  ELSE LET byCreator == IF calendarEvent.creator # Undefined
                          THEN FromCreatorEmail(cfg, calendarEvent.creator)
                          ELSE Undefined
       IN IF byCreator # Undefined THEN byCreator
          ELSE MostAttendees(cfg, calendarEvent.attendees)

\* detectFromTitle(title)
DetectFromTitle(cfg, title) ==
  IF title = Undefined THEN Undefined
  ELSE FirstOrg(cfg.organizations,
                LAMBDA org : \E i \in 1..Len(org.titleKeywords) :
                  Includes(ToLowerCase(title), ToLowerCase(org.titleKeywords[i])),
                1)

\* detectFromPeopleData(people)
DetectFromPeopleData(cfg, people) ==
  IF ~people.present THEN Undefined
  ELSE LET byCompany ==
             IF people.company # Undefined
               THEN FirstOrg(cfg.organizations,
                      LAMBDA org : \E i \in 1..Len(org.companyNames) :
                        Includes(ToLowerCase(people.company),
                                 ToLowerCase(org.companyNames[i])),
                      1)
               ELSE Undefined
           byCreator == IF people.creator # Undefined
                          THEN FromCreatorEmail(cfg, people.creator)
                          ELSE Undefined
       IN IF byCompany # Undefined THEN byCompany
          ELSE IF byCreator # Undefined THEN byCreator
          ELSE MostAttendees(cfg, people.attendees)

\* the array detectionMethods, in its order
DetectionMethods_TitleFirst == <<"title", "calendar", "people">>

DetectionMethods == <<"calendar", "title", "people">>

\* the `enabled` member of an entry of detectionMethods
MethodEnabled(cfg, method) ==
  CASE method = "calendar" -> cfg.useCalendarData # "false"
    [] method = "title" -> cfg.useTitleKeywords # "false"
    [] method = "people" -> cfg.usePeopleData # "false"

\* the `method` member of an entry of detectionMethods, called
CallMethod(cfg, meeting, method) ==
  CASE method = "calendar" ->
         DetectFromCalendarData(cfg, meeting.google_calendar_event)
    [] method = "title" -> DetectFromTitle(cfg, meeting.title)
    [] method = "people" -> DetectFromPeopleData(cfg, meeting.people)

\* the for loop over detectionMethods from entry k on, and the default
RECURSIVE TryMethods(_, _, _)
TryMethods(cfg, meeting, k) ==
  IF k > Len(DetectionMethods) THEN cfg.defaultOrganization
  ELSE LET org == IF MethodEnabled(cfg, DetectionMethods[k])
                    THEN CallMethod(cfg, meeting, DetectionMethods[k])
                    ELSE Undefined
       IN IF org # Undefined THEN org ELSE TryMethods(cfg, meeting, k + 1)

\* detectOrganization(meeting)
DetectOrganization(cfg, meeting) ==
  IF meeting.isNull THEN cfg.defaultOrganization
  ELSE TryMethods(cfg, meeting, 1)

InitDetect ==
  /\ StateManagerConstructed
  /\ SendIdle
  /\ MonitorIdle
  /\ DiskIdle
  /\ OutputsIdle
  /\ NotifierIdle
  /\ ClientIdle
  /\ UtilitiesIdle
  /\ detConfig \in DetectorConfigs
  /\ detMeeting = NullMeeting
  /\ detPc = "idle"
  /\ detResult = Undefined

\* detectOrganization(meeting) is called and returns
CallDetectOrganization ==
  /\ detPc = "idle"
  /\ \E meeting \in Meetings :
       /\ detMeeting' = meeting
       /\ detResult' = DetectOrganization(detConfig, meeting)
  /\ detPc' = "returned"
  /\ UNCHANGED detConfig
  /\ UNCHANGED <<sendVars, smVars, monVars, diskVars, outVars, notifVars,
                 pmVars, utilVars>>

NextDetect == CallDetectOrganization

SpecDetect == InitDetect /\ [][NextDetect]_vars

\* what a signal source finds for the meeting of the last call
SourceLabel(method) ==
  IF detMeeting.isNull THEN Undefined
  ELSE CallMethod(detConfig, detMeeting, method)

\* the source is switched on and finds an organization
SourceMatches(method) ==
  MethodEnabled(detConfig, method) /\ SourceLabel(method) # Undefined

\* C28: the call returns the label of the calendar data when that source is
\* enabled and matches, otherwise that of the title keywords when enabled
\* and matching, otherwise that of the people data when enabled and
\* matching, and the configured default label when no enabled source matches.
C28_FirstMatchingSourceWins ==
  detPc = "returned" =>
    detResult =
      IF SourceMatches("calendar") THEN SourceLabel("calendar")
      ELSE IF SourceMatches("title") THEN SourceLabel("title")
      ELSE IF SourceMatches("people") THEN SourceLabel("people")
      ELSE detConfig.defaultOrganization

C28_Witness ==
  /\ detPc = "returned"
  /\ SourceMatches("calendar")
  /\ SourceMatches("title")
  /\ SourceMatches("people")
  /\ SourceLabel("calendar") = "Organization2"
  /\ SourceLabel("title") = "Organization1"
  /\ detResult = "Organization2"

(***************************************************************************)
(* What validateTemplates returns                                          *)
(***************************************************************************)

\* config.templateNames: a friendly name for a template id, or none
TemplateNameMaps == [TemplateIds -> {"Josh Template", Undefined}]

\* config.requiredTemplateIds.map(id => config.templateNames[id] || id),
\* the list that is joined into the message
TemplateNamesOf(required, names) ==
  [i \in 1..Len(required) |->
     IF names[required[i]] # Undefined THEN names[required[i]]
     ELSE required[i]]

\* position in `panels` of matchingPanels[0]; 0 when no panel matches
FirstMatchingPanel(required, panels) ==
  IF \E i \in 1..Len(panels) : panels[i] \in Range(required)
    THEN CHOOSE i \in 1..Len(panels) :
           /\ panels[i] \in Range(required)
           /\ \A j \in 1..(i - 1) : panels[j] \notin Range(required)
    ELSE 0

NoMessage == [title |-> "", required |-> <<>>]

\* { shouldSkip: false } and { shouldSkip: false, matchedPanel }
Admitted(matchedPanel) ==
  [shouldSkip |-> FALSE, skipReason |-> "none", error |-> NoMessage,
   matchedPanel |-> matchedPanel]

\* the skip of lines 280-294 and 299-313
Rejected(cfg, names, meetingTitle) ==
  [shouldSkip |-> TRUE, skipReason |-> "missing_required_template",
   error |-> [title |-> meetingTitle,
              required |-> TemplateNamesOf(cfg.requiredTemplateIds, names)],
   matchedPanel |-> 0]

\* validateTemplates(panels, meetingTitle) with config.templateNames = names
ValidationOutcome_SpecificNeedsAll(cfg, names, panels, meetingTitle) ==
  IF ~cfg.set \/ ~cfg.enabled THEN Admitted(0)
  ELSE CASE cfg.mode = "disabled" -> Admitted(0)
         [] cfg.mode = "any" ->
              IF Len(MatchingPanels(cfg.requiredTemplateIds, panels)) = 0
                THEN Rejected(cfg, names, meetingTitle)
                ELSE Admitted(FirstMatchingPanel(cfg.requiredTemplateIds, panels))
         [] cfg.mode = "specific" ->
              IF \E i \in 1..Len(cfg.requiredTemplateIds) :
                   cfg.requiredTemplateIds[i] \notin Range(panels)
                THEN Rejected(cfg, names, meetingTitle)
                ELSE Admitted(FirstMatchingPanel(cfg.requiredTemplateIds, panels))
         [] OTHER -> Admitted(0)

ValidationOutcome(cfg, names, panels, meetingTitle) ==
  IF ~cfg.set \/ ~cfg.enabled THEN Admitted(0)
  ELSE CASE cfg.mode = "disabled" -> Admitted(0)
         [] cfg.mode = "any" ->
              IF Len(MatchingPanels(cfg.requiredTemplateIds, panels)) = 0
                THEN Rejected(cfg, names, meetingTitle)
                ELSE Admitted(FirstMatchingPanel(cfg.requiredTemplateIds, panels))
         [] cfg.mode = "specific" ->
              IF Len(MatchingPanels(cfg.requiredTemplateIds, panels)) = 0
                THEN Rejected(cfg, names, meetingTitle)
                ELSE Admitted(FirstMatchingPanel(cfg.requiredTemplateIds, panels))
         [] OTHER -> Admitted(0)

WithMode(cfg, mode) == [cfg EXCEPT !.mode = mode]

SkipEntry(st, id) == st.skippedMeetings[FindById(st.skippedMeetings, id)]

\* the step is a call of shouldNotifyForSkipped for an id the skip ledger
\* already holds
RepeatedSkipCall ==
  /\ CallShouldNotifyForSkipped
  /\ FindById(state.skippedMeetings, ret'.id) > 0

\* C30, as stated: every call for an id already in the skip ledger adds one
\* to the entry's skip count and sets its last-notified timestamp to the
\* time of the call, and so leaves a different state.
C30_CountAndTimestampUpdated ==
  [][ RepeatedSkipCall =>
        /\ SkipEntry(state', ret'.id).skip_count =
             SkipEntry(state, ret'.id).skip_count + 1
        /\ SkipEntry(state', ret'.id).last_notified_at = clock
        /\ state' # state ]_vars

\* C30: every call for an id already in the skip ledger adds one to the
\* entry's skip count, so it leaves a different state; the last-notified
\* timestamp is set to the time of the call when the call returns true and
\* is left as it was when the call returns false.
C30_CountAlwaysTimestampOnNotify ==
  [][ RepeatedSkipCall =>
        /\ SkipEntry(state', ret'.id).skip_count =
             SkipEntry(state, ret'.id).skip_count + 1
        /\ SkipEntry(state', ret'.id).last_notified_at =
             IF ret'.value THEN clock
             ELSE SkipEntry(state, ret'.id).last_notified_at
        /\ state' # state ]_vars

C30_Witness ==
  /\ ret.op = "shouldNotifyForSkipped"
  /\ ~ret.value
  /\ FindById(state.skippedMeetings, ret.id) > 0
  /\ SkipEntry(state, ret.id).skip_count = 2
  /\ SkipEntry(state, ret.id).last_notified_at < clock

(***************************************************************************)
(* Further claims about sendToWebhook                                      *)
(***************************************************************************)

\* C31: a call in which every attempt reached the sink and failed returns a
\* failure whose `retries` is the configured maxRetries + 1, after exactly
\* maxRetries + 1 HTTP calls.
C31_ExhaustedCounts ==
  (SendDone /\ sendResult.kind = "failure" /\ httpCalls = attempts) =>
    /\ sendResult.retries = webhookConfig.maxRetries + 1
    /\ httpCalls = webhookConfig.maxRetries + 1

(***************************************************************************)
(* OutputDestinationManager.sendToJsonFile                                 *)
(***************************************************************************)

\* sends of one manager that are explored
MaxFileSends == 3

\* the payloads handed to the sink: the transcript member is optional
FilePayloads ==
  [meetingId : {"m1", "m2"}, transcript : {Undefined}] \cup
  [meetingId : {"m1"}, transcript : {"segments"}]

\* JSON.parse(JSON.stringify(payload)): a member that is undefined is left out
JsonOfPayload(payload) ==
  IF payload.transcript = Undefined THEN [meetingId |-> payload.meetingId]
  ELSE payload

OldPayload == [meetingId |-> "m0"]

\* what can be at config.filePath before the first send: nothing, a
\* zero-length file, text that is not JSON, a JSON array, another JSON value
SinkFiles ==
  { NoSinkFile,
    [kind |-> "empty", items |-> <<>>],
    [kind |-> "garbage", items |-> <<>>],
    [kind |-> "array", items |-> <<>>],
    [kind |-> "array", items |-> <<OldPayload>>],
    [kind |-> "value", items |-> <<OldPayload>>] }

\* lines 197-209: existingData after the file was looked at
ExistingData_Forgotten(f) == <<>>

ExistingData(f) ==
  CASE f.kind = "absent" -> <<>>
    [] f.kind \in {"empty", "garbage"} -> <<>>
    [] f.kind = "array" -> f.items
    [] f.kind = "value" -> f.items

\* the file after sendToJsonFile(payload)
FileAfterSend(f, appendMode, payload) ==
  IF appendMode
    THEN [kind |-> "array",
          items |-> Append(ExistingData(f), JsonOfPayload(payload))]
    ELSE [kind |-> "value", items |-> <<JsonOfPayload(payload)>>]

InitJsonFile ==
  /\ StateManagerConstructed
  /\ SendIdle
  /\ MonitorIdle
  /\ DiskIdle
  /\ OutputsIdle
  /\ NotifierIdle
  /\ ClientIdle
  /\ DetectorIdle
  /\ PayloadIdle
  /\ SchedulerIdle
  /\ jfAppend \in BOOLEAN
  /\ jfFile \in SinkFiles
  /\ jfStart = jfFile
  /\ jfSent = <<>>

\* sendToJsonFile(payload) runs and returns { success: true }
SendToJsonFile ==
  /\ Len(jfSent) < MaxFileSends
  /\ \E payload \in FilePayloads :
       /\ jfFile' = FileAfterSend(jfFile, jfAppend, payload)
       /\ jfSent' = Append(jfSent, payload)
  /\ UNCHANGED <<jfAppend, jfStart>>
  /\ UNCHANGED <<sendVars, smVars, monVars, diskVars, outVars, notifVars,
                 pmVars, detVars, plVars, schVars>>

NextJsonFile == SendToJsonFile

SpecJsonFile == InitJsonFile /\ [][NextJsonFile]_vars

\* the JSON images of the payloads sent, in send order
SentImages == [i \in 1..Len(jfSent) |-> JsonOfPayload(jfSent[i])]

\* C32: after one or more sends, in overwrite mode the file holds only the
\* last payload; in append mode it holds a JSON array: exactly the payloads
\* sent, in send order, when the file was absent, empty or unparseable
\* before, and the previous array followed by the payloads sent when the file
\* held an array. Every send returns, whatever the file held.
C32_FlatFileContent ==
  jfSent # <<>> =>
    /\ ~jfAppend =>
         jfFile = [kind |-> "value", items |-> <<SentImages[Len(jfSent)]>>]
    /\ (jfAppend /\ jfStart.kind \in {"absent", "empty", "garbage"}) =>
         jfFile = [kind |-> "array", items |-> SentImages]
    /\ (jfAppend /\ jfStart.kind = "array") =>
         jfFile = [kind |-> "array", items |-> jfStart.items \o SentImages]

C32_Witness ==
  /\ jfAppend
  /\ jfStart = [kind |-> "array", items |-> <<OldPayload>>]
  /\ Len(jfSent) = 2
  /\ jfFile.items = <<OldPayload, [meetingId |-> "m2"],
                      [meetingId |-> "m1", transcript |-> "segments"]>>

(***************************************************************************)
(* Order of the sinks within sendToOutputs                                 *)
(***************************************************************************)

\* C33, as stated: the enabled sinks are dispatched together and joined, so
\* once the call has a first result every enabled and configured sink has
\* been called already.
C33_DispatchedTogether ==
  (outPc >= 1 /\ outResults # <<>>) =>
    \A k \in SelectedSinks(outConfig) : Sinks[k] \in Range(outInvoked)

\* C33: within one call the enabled and configured sinks are called one
\* after the other in the fixed order: at most one send is in flight, a sink
\* is called only after every sink called before it has its result, the
\* results are in call order, and the call is over only when nothing is in
\* flight.
C33_OneSinkAtATime ==
  /\ InFlight \in {0, 1}
  /\ \A i \in 1..Len(outResults) : outResults[i].destination = outInvoked[i]
  /\ outPc = Len(Sinks) + 1 => InFlight = 0

C33_Witness ==
  /\ InFlight = 1
  /\ Len(outResults) = 1
  /\ Cardinality(SelectedSinks(outConfig)) = 3

(***************************************************************************)
(* The duration computed by buildMeetingPayload                            *)
(***************************************************************************)

\* longest transcript, in segments
MaxSegments == 2

\* getTime() values of segment boundaries, in milliseconds
SegmentTimes == {0, 1000, 2000, 3000, 4000}

\* transcript segments carrying a start and an end time
Segments ==
  {s \in [start_time : SegmentTimes, end_time : SegmentTimes] :
     s.start_time < s.end_time}

\* enhancedTranscript: undefined, or an object with its segments
Transcripts ==
  {NoTranscript} \cup
  [present : {TRUE},
   segments : UNION {[1..n -> Segments] : n \in 0..MaxSegments}]

\* lines 547-555: `duration` after the if statement, in seconds
DurationOf(transcript) ==
  IF transcript.present /\ Len(transcript.segments) >= 2
    THEN LET firstSegment == transcript.segments[1]
             lastSegment == transcript.segments[Len(transcript.segments)]
         IN [defined |-> TRUE,
             value |-> (lastSegment.end_time - firstSegment.start_time)
                         \div 1000]
    ELSE NoDuration

InitPayload ==
  /\ StateManagerConstructed
  /\ SendIdle
  /\ MonitorIdle
  /\ DiskIdle
  /\ OutputsIdle
  /\ NotifierIdle
  /\ ClientIdle
  /\ DetectorIdle
  /\ JsonFileIdle
  /\ SchedulerIdle
  /\ plTranscript \in Transcripts
  /\ plPc = "idle"
  /\ plDuration = NoDuration

\* buildMeetingPayload(document, panel, enhancedTranscript) returns
BuildMeetingPayload ==
  /\ plPc = "idle"
  /\ plDuration' = DurationOf(plTranscript)
  /\ plPc' = "built"
  /\ UNCHANGED plTranscript
  /\ UNCHANGED <<sendVars, smVars, monVars, diskVars, outVars, notifVars,
                 pmVars, detVars, jfVars, schVars>>

NextPayload == BuildMeetingPayload

SpecPayload == InitPayload /\ [][NextPayload]_vars

\* C34: the payload built from a transcript of one or more segments has
\* duration = (end of the last segment - start of the first) in seconds; the
\* duration is undefined only when there is no transcript.
C34_DurationFromTranscript ==
  plPc = "built" =>
    /\ (plTranscript.present /\ Len(plTranscript.segments) >= 1) =>
         /\ plDuration.defined
         /\ plDuration.value =
              (plTranscript.segments[Len(plTranscript.segments)].end_time
                 - plTranscript.segments[1].start_time) \div 1000
    /\ ~plTranscript.present => ~plDuration.defined

(***************************************************************************)
(* Batch runs and single-meeting runs of one monitor installation          *)
(***************************************************************************)

\* batch runs, and longest page, explored next to single-meeting runs
MaxMixedRuns == 1
MaxMixedPage == 1

MixedBatchStart == BatchStartWith(MaxMixedRuns, MaxMixedPage)

MixedBatchFetchError == BatchFetchErrorWith(MaxMixedRuns)

\* a batch run takes its steps while no single-meeting run is in progress;
\* all runs fall within the same hour
BatchRunStep ==
  /\ pmPc = "idle"
  /\ \/ MixedBatchStart
     \/ MixedBatchFetchError
     \/ ClientSkipDocWithoutId
     \/ ClientProcessMeeting
     \/ BatchNoNewMeetings
     \/ BatchFetchTitles
     \/ BatchFetchTitlesError
     \/ BatchHandleResult
     \/ BatchFinish
     \/ ProcessExit

\* MeetingMonitor.processMeeting takes its steps while no batch run is in
\* progress
SingleRunStep ==
  /\ monPc = "idle"
  /\ \/ CallFetchFails
     \/ CallFetchesPanels
     \/ Validate
     \/ BuildFails
     \/ Deliver
     \/ MonitorHandlesResult
     \/ MonitorDocsFail
     \/ CallOver

NextRuns == BatchRunStep \/ SingleRunStep

SpecRuns == Init /\ [][NextRuns]_vars

\* the state file holds what save() writes for the state in memory
WrittenBack == file.exists /\ file.content = Stringify(state)

\* C35: when a monitor run is over, by normal completion, by the early
\* return without new meetings or by an exception, the state in memory has
\* been written to the state file; this holds for the batch run and for the
\* single-meeting run.
C35_EveryExitSaves ==
  /\ monPc = "finished" => WrittenBack
  /\ pmPc = "done" => WrittenBack

\* a single-meeting run recorded its meeting, then a batch run found nothing
\* new and returned early
C35_Witness ==
  /\ monPc = "finished"
  /\ results = <<>>
  /\ page # <<>>
  /\ Len(state.processedMeetings) = 1
  /\ state.failureTracking.consecutiveFailures = 0
  /\ WrittenBack

\* the skip ledger holds the id and the processed ledger does not: the
\* meeting was turned down for its missing template and never recorded
SkippedOnly(id) ==
  /\ FindById(state.skippedMeetings, id) > 0
  /\ id \notin Range(GetProcessedIds(state))

\* C36: a meeting skipped for a missing required template is evaluated
\* again by a later batch run: when a run starts and the fetched page lists
\* a meeting that so far was only skipped, the meeting is among the
\* documents the run will attempt.
C36_SkippedIsEvaluatedAgain ==
  (monPc = "loop" /\ loopIdx = 1) =>
    \A i \in 1..Len(page) :
      SkippedOnly(DocKey(page[i])) =>
        \E j \in 1..Len(unprocessedDocs) :
          DocKey(unprocessedDocs[j]) = DocKey(page[i])

\* C37: every result is handled under the id of the meeting that produced
\* it: when the monitor is about to handle the i-th result, the id it reads
\* from the array of processed ids is the id of the i-th attempted document.
C37_ResultPairedWithItsMeeting ==
  (monPc = "handle" /\ handleIdx <= Len(results)) =>
    ArrayAt(processedIds, Len(processedIds) - Len(results) + (handleIdx - 1))
      = results[handleIdx].docId

\* C38: the processed ledger never holds two records with the same meeting
\* id, whatever batch runs and single-meeting runs came before.
C38_LedgerIdsUnique ==
  \A i, j \in 1..Len(state.processedMeetings) :
    state.processedMeetings[i].id = state.processedMeetings[j].id => i = j

(***************************************************************************)
(* scripts/scheduled-webhook-monitor.js: the interval scheduler            *)
(***************************************************************************)

\* longest interval and longest monitor run, in minutes, and the number of
\* monitor runs the scheduler starts
MaxInterval == 3
MaxDuration == 4
MaxSpawns == 4

\* --interval <minutes>
Intervals == 1..MaxInterval

\* the script has parsed its arguments; nothing has been spawned yet
InitScheduler ==
  /\ StateManagerConstructed
  /\ SendIdle
  /\ MonitorIdle
  /\ DiskIdle
  /\ OutputsIdle
  /\ NotifierIdle
  /\ ClientIdle
  /\ DetectorIdle
  /\ JsonFileIdle
  /\ PayloadIdle
  /\ schInterval \in Intervals
  /\ schUntilFire = 0
  /\ schChildren = <<>>
  /\ schSpawned = 0

SchedulerFrame ==
  /\ UNCHANGED schInterval
  /\ UNCHANGED <<sendVars, smVars, monVars, diskVars, outVars, notifVars,
                 pmVars, detVars, jfVars, plVars>>

\* runWebhookMonitor(): a child process is spawned, whatever children are
\* still running; each child is kept with the minutes it has been running
RunWebhookMonitor(children) == Append(children, 0)

\* lines 96-106: the run at startup, and setInterval
SchedulerStart ==
  /\ schSpawned = 0
  /\ schChildren' = RunWebhookMonitor(schChildren)
  /\ schSpawned' = 1
  /\ schUntilFire' = schInterval
  /\ SchedulerFrame

\* lines 102-106: the timer fires and the callback runs runWebhookMonitor
IntervalFires ==
  /\ schSpawned > 0
  /\ schSpawned < MaxSpawns
  /\ schUntilFire = 0
  /\ schChildren' = RunWebhookMonitor(schChildren)
  /\ schSpawned' = schSpawned + 1
  /\ schUntilFire' = schInterval
  /\ SchedulerFrame

\* lines 81-84: a child exits and its 'close' handler writes the log
ChildExits ==
  /\ \E i \in 1..Len(schChildren) :
       schChildren' = [j \in 1..(Len(schChildren) - 1) |->
                         IF j < i THEN schChildren[j] ELSE schChildren[j + 1]]
  /\ UNCHANGED <<schUntilFire, schSpawned>>
  /\ SchedulerFrame

\* a minute passes; a monitor run lasts MaxDuration minutes at most
MinutePasses ==
  /\ schSpawned > 0
  /\ schUntilFire > 0
  /\ \A i \in 1..Len(schChildren) : schChildren[i] < MaxDuration
  /\ schChildren' = [i \in 1..Len(schChildren) |-> schChildren[i] + 1]
  /\ schUntilFire' = schUntilFire - 1
  /\ UNCHANGED schSpawned
  /\ SchedulerFrame

NextScheduler == SchedulerStart \/ IntervalFires \/ ChildExits \/ MinutePasses

SpecScheduler == InitScheduler /\ [][NextScheduler]_vars

\* C39: the scheduler never has two monitor children running at the same
\* time, whatever the duration of a run is next to the interval.
C39_OneChildAtATime == Len(schChildren) <= 1

\* a batch run ends in its catch block: one of the two getDocuments calls
\* rejected
RunEndsWithException == BatchFetchError \/ BatchFetchTitlesError

\* C40: a batch run that ends with an exception leaves the last-check
\* timestamp as it was and adds exactly one to the consecutive-failure
\* count; the timestamp moves only in the step that completes a run without
\* exception.
C40_ExceptionKeepsTimestamp ==
  [][ /\ RunEndsWithException =>
           /\ state'.lastCheckTimestamp = state.lastCheckTimestamp
           /\ state'.failureTracking.consecutiveFailures =
                state.failureTracking.consecutiveFailures + 1
      /\ state'.lastCheckTimestamp # state.lastCheckTimestamp => BatchFinish
    ]_vars

\* the second run of a day-old installation delivered a meeting and then
\* failed to fetch the titles, after a first run that had failed as well
C40_Witness ==
  /\ monPc = "finished"
  /\ runs = 2
  /\ posted # <<>>
  /\ state.processedMeetings = <<>>
  /\ state.failureTracking.consecutiveFailures = 2
  /\ state.lastCheckTimestamp = 0 - LookbackDays * HoursPerDay
  /\ clock > 0

====
